---- MODULE Spec2Model ----
(***************************************************************************)
(* Model of src/src/Churn_model_sample.py: the monthly aggregation of      *)
(* position snapshots and transactions, the expansion of every account     *)
(* into one row per month (generate_monthly_rows) and the two left joins   *)
(* that build the merged panel; and of the feature builders of             *)
(* src/src/account_level_feature_engineering.py                            *)
(* (AccountLevelFeatureEngineering.build_integrated_features).             *)
(*                                                                         *)
(* Timestamps are records [y, m, d, h]: pandas keeps the time of day of a  *)
(* Timestamp through replace(day=1), MonthEnd and DateOffset, so the hour  *)
(* is part of the value.  NaT is the record with y = 0.  A missing number  *)
(* (NaN / pd.NA) is the empty tuple, a present number v is <<v>>.          *)
(***************************************************************************)
EXTENDS Integers, Sequences, FiniteSets, TLC

VARIABLES
    today,                       \* line 114: the reference date, at midnight
    df_accounts,                 \* line 4 / 110-111: the accounts table, dates parsed
    df_pnl,                      \* line 5: position snapshots
    df_transactions,             \* line 6: transactions
    pnl_agg,                     \* line 63
    transaction_agg,             \* line 101
    rows,                        \* line 145: the flattened monthly rows
    acct_i,                      \* position of the loop of line 146
    Account_monthly_aggregated,  \* line 149-159
    df_merged,                   \* line 170-173
    files,                       \* the CSV files written so far
    stdout,                      \* the lines printed so far
    pc,                          \* position in the script
    \* AccountLevelFeatureEngineering (account_level_feature_engineering.py)
    current_date,                \* line 37: self.current_date
    account_df,                  \* line 33 / 69
    performance_df,              \* line 34 / 70
    transaction_df,              \* line 35 / 71
    performance_features,        \* line 363: local of build_integrated_features
    transaction_features,        \* line 364: local of build_integrated_features
    feature_df,                  \* line 36 / 395
    fe_pc,                       \* position in build_integrated_features
    \* The extractor and the runners (account_level_data_extractor.py,
    \* run_account_churn_pipeline.py, run_feature_engineering.py)
    env,                         \* what the database, the files and the user do
    connection,                  \* extractor.connection: "none", "open", "closed"
    started,                     \* the steps and calls started so far, in order
    artifacts,                   \* the output files written so far
    result,                      \* the value returned by the operation
    account_master,              \* data_cache['account'] of extract_account_data
    run_pc                       \* position in the operation

scriptVars == <<today, df_accounts, df_pnl, df_transactions, pnl_agg, transaction_agg,
                rows, acct_i, Account_monthly_aggregated, df_merged, files, stdout, pc>>

feVars == <<current_date, account_df, performance_df, transaction_df,
            performance_features, transaction_features, feature_df, fe_pc>>

runVars == <<env, connection, started, artifacts, result, account_master, run_pc>>

vars == <<scriptVars, feVars, runVars>>

-----------------------------------------------------------------------------
(* Bounds of the model. *)

NumYears == 2
MaxSnapshots == 3
MaxJoinSnapshots == 2
MaxJoinTransactions == 1
MaxRatioSnapshots == 2
MaxRatioTransactions == 2
MaxDirtySnapshots == 2
MaxDirtyTransactions == 2

-----------------------------------------------------------------------------
(* Calendar and Timestamp arithmetic, as pandas computes it. *)

NaT == [y |-> 0, m |-> 0, d |-> 0, h |-> 0]

IsNull(ts) == ts.y = 0

\* A cell of a date column that pd.to_datetime cannot parse.
Malformed == [y |-> -1, m |-> 0, d |-> 0, h |-> 0]

NA == << >>

IsNA(v) == v = << >>

IsLeap(y) == (y % 4 = 0 /\ y % 100 # 0) \/ y % 400 = 0

DaysInMonth(y, m) ==
    IF m = 2 THEN (IF IsLeap(y) THEN 29 ELSE 28)
    ELSE IF m \in {4, 6, 9, 11} THEN 30 ELSE 31

RECURSIVE DaysBeforeMonth(_, _)
DaysBeforeMonth(y, m) ==
    IF m = 1 THEN 0 ELSE DaysBeforeMonth(y, m - 1) + DaysInMonth(y, m - 1)

\* The proleptic Gregorian ordinal of a date.
DayNumber(ts) ==
    LET p == ts.y - 1
    IN  365 * p + (p \div 4) - (p \div 100) + (p \div 400)
        + DaysBeforeMonth(ts.y, ts.m) + ts.d

\* Timestamp comparison: chronological order, the hour included.
TsLess(a, b) ==
    \/ a.y < b.y
    \/ a.y = b.y /\ a.m < b.m
    \/ a.y = b.y /\ a.m = b.m /\ a.d < b.d
    \/ a.y = b.y /\ a.m = b.m /\ a.d = b.d /\ a.h < b.h

TsLeq(a, b) == a = b \/ TsLess(a, b)

\* Python's max(a, b): b only when b > a.
TsMax(a, b) == IF TsLess(a, b) THEN b ELSE a

\* Timestamp.replace(day=1): the time of day is kept.
ReplaceDay1(ts) == [ts EXCEPT !.d = 1]

\* ts + MonthEnd(0): roll forward to the month's last day, time of day kept.
MonthEnd0(ts) == [ts EXCEPT !.d = DaysInMonth(ts.y, ts.m)]

\* MonthEnd.is_on_offset
IsMonthEnd(ts) == ts.d = DaysInMonth(ts.y, ts.m)

NextMonthEndSkipsJanuary(ts) ==
    LET ny == IF ts.m = 12 THEN ts.y + 1 ELSE ts.y
        nm == IF ts.m = 12 THEN 2 ELSE ts.m + 1
    IN  [ts EXCEPT !.y = ny, !.m = nm, !.d = DaysInMonth(ny, nm)]

\* ts + MonthEnd(1) for a ts on a month end: the next month's last day.
NextMonthEnd(ts) ==
    LET ny == IF ts.m = 12 THEN ts.y + 1 ELSE ts.y
        nm == IF ts.m = 12 THEN 1 ELSE ts.m + 1
    IN  [ts EXCEPT !.y = ny, !.m = nm, !.d = DaysInMonth(ny, nm)]

\* ts - pd.DateOffset(months=n): the month is shifted, the day is clipped to
\* the target month's length, the time of day is kept.
SubMonths(ts, n) ==
    LET k  == ts.y * 12 + (ts.m - 1) - n
        ny == k \div 12
        nm == (k % 12) + 1
        dm == DaysInMonth(ny, nm)
    IN  [ts EXCEPT !.y = ny, !.m = nm, !.d = IF ts.d > dm THEN dm ELSE ts.d]

\* Months since year 0 of a Timestamp's calendar month.
MonthIndex(ts) == ts.y * 12 + (ts.m - 1)

\* (a - b).days: the whole days of the Timedelta (floor).
TimedeltaDays(a, b) ==
    ((DayNumber(a) * 24 + a.h) - (DayNumber(b) * 24 + b.h)) \div 24

RECURSIVE GenerateRange(_, _)
GenerateRange(cur, end) ==
    IF TsLeq(cur, end) THEN <<cur>> \o GenerateRange(NextMonthEnd(cur), end)
    ELSE << >>

date_rangeWithoutEnd(start, end) ==
    LET r == GenerateRange(IF IsMonthEnd(start) THEN start ELSE MonthEnd0(start), end)
    IN  IF r # << >> /\ r[Len(r)] = end THEN SubSeq(r, 1, Len(r) - 1) ELSE r

\* pd.date_range(start=, end=, freq='ME'): start is rolled forward onto a month
\* end, then month ends are produced while they are <= end.
date_range(start, end) ==
    GenerateRange(IF IsMonthEnd(start) THEN start ELSE MonthEnd0(start), end)

-----------------------------------------------------------------------------
(* generate_monthly_rows, lines 117-142. *)

LookbackMonths == 11

ChurnFlagOfLastRow(row, months, i) ==
    IF i = Len(months) THEN 1 ELSE 0

\* lines 128-132: the churn flag of the i-th generated month.
ChurnFlag(row, months, i) ==
    IF /\ ~IsNull(row.ACCOUNTCLOSEDATE)
       /\ months[i].y = row.ACCOUNTCLOSEDATE.y
       /\ months[i].m = row.ACCOUNTCLOSEDATE.m
    THEN 1 ELSE 0

\* lines 120-123
EndMonth(row, t) ==
    IF ~IsNull(row.ACCOUNTCLOSEDATE)
    THEN MonthEnd0(ReplaceDay1(row.ACCOUNTCLOSEDATE))
    ELSE MonthEnd0(ReplaceDay1(t))

StartMonthNoLookback(row, t) ==
    MonthEnd0(ReplaceDay1(row.ACCOUNTOPENDATE))

\* line 124
StartMonth(row, t) ==
    TsMax(MonthEnd0(ReplaceDay1(row.ACCOUNTOPENDATE)),
          SubMonths(EndMonth(row, t), LookbackMonths))

AccountAgeNotUpdated(row, m) == row.ACCOUNT_AGE_DAYS

\* line 140
AccountAgeDays(row, m) == TimedeltaDays(m, row.ACCOUNTOPENDATE)

\* lines 133-141: one generated row.
MonthlyRow(row, months, i) ==
    [ID               |-> row.ID,
     ACCOUNTOPENDATE  |-> row.ACCOUNTOPENDATE,
     ACCOUNTCLOSEDATE |-> row.ACCOUNTCLOSEDATE,
     ACCOUNT_MONTH    |-> months[i],
     CHURN_FLAG       |-> ChurnFlag(row, months, i),
     ACCOUNT_AGE_DAYS |-> AccountAgeDays(row, months[i])]

generate_monthly_rows(row, t) ==
    IF IsNull(row.ACCOUNTOPENDATE) THEN << >>
    ELSE LET end_month   == EndMonth(row, t)
             start_month == StartMonth(row, t)
         IN  IF TsLess(end_month, start_month) THEN << >>
             ELSE LET months == date_range(start_month, end_month)
                  IN  [i \in 1..Len(months) |-> MonthlyRow(row, months, i)]

-----------------------------------------------------------------------------
(* Strings are tuples of one-character strings. *)

Digit(n) == CASE n = 0 -> "0" [] n = 1 -> "1" [] n = 2 -> "2" [] n = 3 -> "3"
              [] n = 4 -> "4" [] n = 5 -> "5" [] n = 6 -> "6" [] n = 7 -> "7"
              [] n = 8 -> "8" [] n = 9 -> "9"

\* The character codes of the characters a key is made of.
CharCode(c) == CASE c = "-" -> 45 [] c = "0" -> 48 [] c = "1" -> 49
                 [] c = "2" -> 50 [] c = "3" -> 51 [] c = "4" -> 52
                 [] c = "5" -> 53 [] c = "6" -> 54 [] c = "7" -> 55
                 [] c = "8" -> 56 [] c = "9" -> 57 [] c = "N" -> 78
                 [] c = "T" -> 84 [] c = "_" -> 95 [] c = "a" -> 97

RECURSIVE StrLess(_, _)
StrLess(a, b) ==
    IF b = << >> THEN FALSE
    ELSE IF a = << >> THEN TRUE
    ELSE IF a[1] # b[1] THEN CharCode(a[1]) < CharCode(b[1])
    ELSE StrLess(Tail(a), Tail(b))

\* str(n) of a non-negative integer.
RECURSIVE Str(_)
Str(n) == IF n < 10 THEN <<Digit(n)>> ELSE Str(n \div 10) \o <<Digit(n % 10)>>

\* n zero-padded to w digits (%Y, %m).
RECURSIVE ZeroPad(_, _)
ZeroPad(n, w) == IF w = 0 THEN << >> ELSE ZeroPad(n \div 10, w - 1) \o <<Digit(n % 10)>>

\* Timestamp.strftime('%Y-%m')
StrfYm(ts) == ZeroPad(ts.y, 4) \o <<"-">> \o ZeroPad(ts.m, 2)

\* Series.dt.to_period('M').astype(str)
PeriodStr(ts) ==
    IF IsNull(ts) THEN <<"N", "a", "T">>
    ELSE ZeroPad(ts.y, 4) \o <<"-">> \o ZeroPad(ts.m, 2)

AccountIdOnlyKey(id, ts) == Str(id)

\* lines 15 and 74: ACCOUNTID.astype(str) + '_' + month string.
RecordKey(id, ts) == Str(id) \o <<"_">> \o PeriodStr(ts)

\* lines 152-155: ID.astype(str) + '_' + ACCOUNT_MONTH.dt.strftime('%Y-%m').
PanelKey(id, ts) == Str(id) \o <<"_">> \o StrfYm(ts)

-----------------------------------------------------------------------------
(* Operations on nullable numbers and on columns (tuples of them). *)

Num(v) == <<v>>

Abs(x) == IF x < 0 THEN -x ELSE x

\* a - b, missing when either is missing.
NSub(a, b) == IF IsNA(a) \/ IsNA(b) THEN NA ELSE <<a[1] - b[1]>>

NAdd(a, b) == IF IsNA(a) \/ IsNA(b) THEN NA ELSE <<a[1] + b[1]>>

NAbs(a) == IF IsNA(a) THEN NA ELSE <<Abs(a[1])>>

ZeroKept(a) == a

\* Series.replace(0, pd.NA)
ReplaceZeroNA(a) == IF a = <<0>> THEN NA ELSE a

\* a / b on nullable numbers: the exact quotient as <<numerator, denominator>>,
\* missing when either operand is missing.
NDiv(a, b) == IF IsNA(a) \/ IsNA(b) THEN NA ELSE <<a[1], b[1]>>

\* Series.replace(0, pd.NA) on a column of means <<sum, count>>.
ReplaceZeroMeanNA(a) == IF ~IsNA(a) /\ a[1] = 0 THEN NA ELSE a

\* a / b on means <<sum, count>>: the exact quotient as
\* <<numerator, denominator>>, missing when either operand is missing.
MeanDiv(a, b) ==
    IF IsNA(a) \/ IsNA(b) THEN NA ELSE <<a[1] * b[2], a[2] * b[1]>>

NonNull(col) == SelectSeq(col, LAMBDA v : ~IsNA(v))

AggFirstRow(col) == IF col = << >> THEN NA ELSE col[1]

\* GroupBy 'first': the first value that is not missing.
AggFirst(col) ==
    LET nn == NonNull(col) IN IF nn = << >> THEN NA ELSE nn[1]

AggLastRow(col) == IF col = << >> THEN NA ELSE col[Len(col)]

\* GroupBy 'last': the last value that is not missing.
AggLast(col) ==
    LET nn == NonNull(col) IN IF nn = << >> THEN NA ELSE nn[Len(nn)]

\* GroupBy 'max' / 'min': over the values that are not missing.
AggMax(col) ==
    LET nn == NonNull(col)
    IN  IF nn = << >> THEN NA
        ELSE <<CHOOSE v \in {nn[i][1] : i \in 1..Len(nn)} :
                 \A j \in 1..Len(nn) : nn[j][1] <= v>>

AggMin(col) ==
    LET nn == NonNull(col)
    IN  IF nn = << >> THEN NA
        ELSE <<CHOOSE v \in {nn[i][1] : i \in 1..Len(nn)} :
                 \A j \in 1..Len(nn) : v <= nn[j][1]>>

\* GroupBy 'count': the number of values that are not missing.
AggCount(col) == Len(NonNull(col))

RECURSIVE SumSeq(_)
SumSeq(col) == IF col = << >> THEN 0 ELSE col[1][1] + SumSeq(Tail(col))

\* GroupBy 'sum': missing values are skipped, an empty sum is 0.
AggSum(col) == SumSeq(NonNull(col))

\* x.abs().sum()
AggAbsSum(col) == SumSeq([i \in 1..Len(NonNull(col)) |-> NAbs(NonNull(col)[i])])

\* GroupBy 'mean': the exact mean <<sum, count>>, missing when nothing to average.
AggMean(col) ==
    IF NonNull(col) = << >> THEN NA ELSE <<AggSum(col), AggCount(col)>>

\* (x > 0).sum() and (x < 0).sum(): a missing value compares False.
CountPositive(col) == Len(SelectSeq(col, LAMBDA v : ~IsNA(v) /\ v[1] > 0))

CountNegative(col) == Len(SelectSeq(col, LAMBDA v : ~IsNA(v) /\ v[1] < 0))

\* (x != x.shift()).sum(): the first value is compared with the missing value
\* shift() puts before it, and a missing value differs from everything.
ShiftChangeCount(col) ==
    Cardinality({i \in 1..Len(col) :
        \/ i = 1
        \/ IsNA(col[i]) \/ IsNA(col[i - 1])
        \/ col[i] # col[i - 1]})

\* The column of a table: the values its rows have in a field.
Column(df, field) == [i \in 1..Len(df) |-> df[i][field]]

-----------------------------------------------------------------------------
(* aggregate_pnl_monthly, lines 10-59.  A snapshot is a record              *)
(* [idx, ACCOUNTID, BE_ASOF, DAILY_BOOKUGL, TOTAL_DAILY_QUANTITY,           *)
(*  DAY_BOOK_MARKET_VALUE, DAILY_ORIGINAL_COST_SUM,                         *)
(*  AVG_BOOK_PRICE_PERIODEND, AVG_BOOK_UNIT_COST]; idx is the row's label   *)
(* in the DataFrame index, which copy() and sort_values() keep.  UGL_STD    *)
(* and NUMBER_OF_POSITION are left out of the aggregate row.                *)

\* The order of sort_values(['ACCOUNTID', 'BE_ASOF']); NaT sorts last.
PnlSortLess(a, b) ==
    \/ a.ACCOUNTID < b.ACCOUNTID
    \/ /\ a.ACCOUNTID = b.ACCOUNTID
       /\ ~IsNull(a.BE_ASOF)
       /\ (IsNull(b.BE_ASOF) \/ TsLess(a.BE_ASOF, b.BE_ASOF))

\* x placed behind every row of the sorted df that does not sort after it.
StableInsert(df, x) ==
    LET after == {i \in 1..Len(df) : PnlSortLess(x, df[i])}
        pos   == IF after = {} THEN Len(df) + 1
                 ELSE CHOOSE i \in after : \A j \in after : i <= j
    IN  SubSeq(df, 1, pos - 1) \o <<x>> \o SubSeq(df, pos, Len(df))

NoSort(df) == df

\* line 13: a sort on two columns is stable.
RECURSIVE SortPnl(_)
SortPnl(df) ==
    IF df = << >> THEN << >>
    ELSE StableInsert(SortPnl(SubSeq(df, 1, Len(df) - 1)), df[Len(df)])

PnlKey(r) == RecordKey(r.ACCOUNTID, r.BE_ASOF)

TransKey(r) == RecordKey(r.ACCOUNTID, r.EVENTDATE)

\* The keys of a set, in the order groupby (sort=True) puts the groups.
RECURSIVE SortedKeys(_)
SortedKeys(ks) ==
    IF ks = {} THEN << >>
    ELSE LET k == CHOOSE a \in ks : \A b \in ks : ~StrLess(b, a)
         IN  <<k>> \o SortedKeys(ks \ {k})

\* The latest timestamp of a column (Series.max()).
MaxTs(col) ==
    CHOOSE t \in {col[i] : i \in 1..Len(col)} :
        \A j \in 1..Len(col) : TsLeq(col[j], t)

\* lines 12 and 71: pd.to_datetime is called without errors=, which is
\* errors='raise': a cell it cannot parse raises.
ToDatetimeRaises(col) == \E i \in 1..Len(col) : col[i] = Malformed

\* lines 21 and 82: the records without a timestamp form the group of the
\* key '<id>_NaT', its x.max() is NaT and NaT.strftime raises ValueError.
StrftimeRaises(col) == \E i \in 1..Len(col) : IsNull(col[i])

\* aggregate_pnl_monthly(df) (aggregate_transactions_monthly(df)) raises.
PnlRaises(df) ==
    ToDatetimeRaises(Column(df, "BE_ASOF")) \/ StrftimeRaises(Column(df, "BE_ASOF"))

TransRaises(df) ==
    ToDatetimeRaises(Column(df, "EVENTDATE")) \/ StrftimeRaises(Column(df, "EVENTDATE"))

\* lines 19-50: the aggregate row of one group g, its rows in df order.
PnlAggRow(k, g) ==
    LET end_ugl   == AggLast(Column(g, "DAILY_BOOKUGL"))
        start_ugl == AggFirst(Column(g, "DAILY_BOOKUGL"))
        max_ugl   == AggMax(Column(g, "DAILY_BOOKUGL"))
        last_qty  == AggLast(Column(g, "TOTAL_DAILY_QUANTITY"))
        first_qty == AggFirst(Column(g, "TOTAL_DAILY_QUANTITY"))
        last_mv   == AggLast(Column(g, "DAY_BOOK_MARKET_VALUE"))
        first_mv  == AggFirst(Column(g, "DAY_BOOK_MARKET_VALUE"))
        max_mv    == AggMax(Column(g, "DAY_BOOK_MARKET_VALUE"))
        min_mv    == AggMin(Column(g, "DAY_BOOK_MARKET_VALUE"))
        avg_price == AggMean(Column(g, "AVG_BOOK_PRICE_PERIODEND"))
        avg_cost  == AggMean(Column(g, "AVG_BOOK_UNIT_COST"))
    IN  [ACCOUNTID_MONTH          |-> k,
         ACCOUNTID                |-> Num(g[1].ACCOUNTID),
         MONTH                    |-> StrfYm(MaxTs(Column(g, "BE_ASOF"))),
         END_BOOKUGL              |-> end_ugl,
         START_BOOKUGL            |-> start_ugl,
         MAX_BOOKUGL              |-> max_ugl,
         GAIN_DAYS                |-> Num(CountPositive(Column(g, "DAILY_BOOKUGL"))),
         LOSS_DAYS                |-> Num(CountNegative(Column(g, "DAILY_BOOKUGL"))),
         LAST_QUANTITY            |-> last_qty,
         FIRST_QUANTITY           |-> first_qty,
         QUANTITY_CHANGE_COUNT    |-> Num(ShiftChangeCount(Column(g, "TOTAL_DAILY_QUANTITY"))),
         LAST_MARKET_VALUE        |-> last_mv,
         FIRST_MARKET_VALUE       |-> first_mv,
         MAX_MARKET_VALUE         |-> max_mv,
         MIN_MARKET_VALUE         |-> min_mv,
         ORIGINAL_INVESTED        |-> AggFirst(Column(g, "DAILY_ORIGINAL_COST_SUM")),
         AVG_PRICE_PERIODEND      |-> avg_price,
         AVG_UNIT_COST            |-> avg_cost,
         UGL_CHANGE_PCT           |-> NDiv(NSub(end_ugl, start_ugl),
                                           ReplaceZeroNA(NAbs(start_ugl))),
         UGL_MAX_OPPORTUNITY_LOSS |-> NSub(max_ugl, end_ugl),
         QUANTITY_NET_CHANGE      |-> NSub(last_qty, first_qty),
         QUANTITY_CHANGE_PCT      |-> NDiv(NSub(last_qty, first_qty),
                                           ReplaceZeroNA(first_qty)),
         MARKET_VALUE_NET_CHANGE  |-> NSub(last_mv, first_mv),
         MARKET_VALUE_CHANGE_PCT  |-> NDiv(NSub(last_mv, first_mv),
                                           ReplaceZeroNA(first_mv)),
         MAX_DRAW_DOWN            |-> NSub(max_mv, min_mv),
         PRICE_TO_COST_RATIO      |-> MeanDiv(avg_price, ReplaceZeroMeanNA(avg_cost)),
         SRC                      |-> {g[i].idx : i \in 1..Len(g)}]

PnlGroupPerRow(df) ==
    [i \in 1..Len(df) |-> PnlAggRow(PnlKey(df[i]), <<df[i]>>)]

\* lines 17-39: one aggregate row per ACCOUNTID_MONTH of the sorted df.
PnlGroupBy(df) ==
    LET keys == SortedKeys({PnlKey(df[i]) : i \in 1..Len(df)})
    IN  [n \in 1..Len(keys) |->
            PnlAggRow(keys[n], SelectSeq(df, LAMBDA r : PnlKey(r) = keys[n]))]

\* lines 11-50: the aggregate before the intermediate columns are dropped.
PnlAggregateAll(df) == PnlGroupBy(SortPnl(df))

\* lines 53-57: the columns aggregate_pnl_monthly returns.
DropPnlColumns(r) ==
    [ACCOUNTID_MONTH          |-> r.ACCOUNTID_MONTH,
     ACCOUNTID                |-> r.ACCOUNTID,
     MONTH                    |-> r.MONTH,
     END_BOOKUGL              |-> r.END_BOOKUGL,
     MAX_BOOKUGL              |-> r.MAX_BOOKUGL,
     GAIN_DAYS                |-> r.GAIN_DAYS,
     LOSS_DAYS                |-> r.LOSS_DAYS,
     LAST_QUANTITY            |-> r.LAST_QUANTITY,
     QUANTITY_CHANGE_COUNT    |-> r.QUANTITY_CHANGE_COUNT,
     ORIGINAL_INVESTED        |-> r.ORIGINAL_INVESTED,
     UGL_CHANGE_PCT           |-> r.UGL_CHANGE_PCT,
     UGL_MAX_OPPORTUNITY_LOSS |-> r.UGL_MAX_OPPORTUNITY_LOSS,
     QUANTITY_NET_CHANGE      |-> r.QUANTITY_NET_CHANGE,
     QUANTITY_CHANGE_PCT      |-> r.QUANTITY_CHANGE_PCT,
     MARKET_VALUE_NET_CHANGE  |-> r.MARKET_VALUE_NET_CHANGE,
     MARKET_VALUE_CHANGE_PCT  |-> r.MARKET_VALUE_CHANGE_PCT,
     MAX_DRAW_DOWN            |-> r.MAX_DRAW_DOWN,
     PRICE_TO_COST_RATIO      |-> r.PRICE_TO_COST_RATIO,
     SRC                      |-> r.SRC]

aggregate_pnl_monthly(df) ==
    LET agg == PnlAggregateAll(df)
    IN  [n \in 1..Len(agg) |-> DropPnlColumns(agg[n])]

-----------------------------------------------------------------------------
(* aggregate_transactions_monthly, lines 69-99.  A transaction is a record  *)
(* [idx, ACCOUNTID, EVENTDATE, BOOKAMOUNT, BOOKTOTALGAIN, BOOKTOTALLOSS].   *)


\* x.dt.date.nunique()
TradeDays(g) ==
    Cardinality({<<g[i].EVENTDATE.y, g[i].EVENTDATE.m, g[i].EVENTDATE.d>> :
                   i \in {j \in 1..Len(g) : ~IsNull(g[j].EVENTDATE)}})


\* lines 76-98: the aggregate row of one group g, its rows in input order.
TransAggRow(k, g) ==
    LET total == AggAbsSum(Column(g, "BOOKAMOUNT"))
        gain  == AggSum(Column(g, "BOOKTOTALGAIN"))
        loss  == AggSum(Column(g, "BOOKTOTALLOSS"))
    IN  [ACCOUNTID_MONTH          |-> k,
         ACCOUNTID                |-> Str(g[1].ACCOUNTID),
         MONTH                    |-> StrfYm(MaxTs(Column(g, "EVENTDATE"))),
         NUM_TRANSACTIONS         |-> Num(AggCount(Column(g, "BOOKAMOUNT"))),
         TRADE_DAYS               |-> Num(TradeDays(g)),
         CASH_FLOW                |-> Num(AggSum(Column(g, "BOOKAMOUNT"))),
         AVG_BOOKAMOUNT           |-> AggMean(Column(g, "BOOKAMOUNT")),
         REALIZED_GAIN            |-> Num(gain),
         REALIZED_LOSS            |-> Num(loss),
         TRANSACTION_AMOUNT_TOTAL |-> Num(total),
         NET_REALIZED_PNL         |-> Num(gain + loss),
         NET_REALIZED_PNL_PCT     |-> NDiv(Num(gain + loss), ReplaceZeroNA(Num(total))),
         SRC                      |-> {g[i].idx : i \in 1..Len(g)}]

aggregate_transactions_monthly(df) ==
    LET keys == SortedKeys({TransKey(df[i]) : i \in 1..Len(df)})
    IN  [n \in 1..Len(keys) |->
            TransAggRow(keys[n], SelectSeq(df, LAMBDA r : TransKey(r) = keys[n]))]

-----------------------------------------------------------------------------
(* The panel and the two left joins, lines 144-176. *)

\* lines 149-159: a row of Account_monthly_aggregated: the key is added and
\* ACCOUNT_MONTH is dropped.
PanelRow(r) ==
    [ACCOUNTID_MONTH  |-> PanelKey(r.ID, r.ACCOUNT_MONTH),
     ID               |-> r.ID,
     ACCOUNTOPENDATE  |-> r.ACCOUNTOPENDATE,
     ACCOUNTCLOSEDATE |-> r.ACCOUNTCLOSEDATE,
     CHURN_FLAG       |-> r.CHURN_FLAG,
     ACCOUNT_AGE_DAYS |-> r.ACCOUNT_AGE_DAYS]

\* The right-hand columns of a left row that has no match.
NullPnl ==
    [ACCOUNTID |-> NA, MONTH |-> NA, END_BOOKUGL |-> NA, MAX_BOOKUGL |-> NA,
     GAIN_DAYS |-> NA, LOSS_DAYS |-> NA, LAST_QUANTITY |-> NA,
     QUANTITY_CHANGE_COUNT |-> NA, ORIGINAL_INVESTED |-> NA,
     UGL_CHANGE_PCT |-> NA, UGL_MAX_OPPORTUNITY_LOSS |-> NA,
     QUANTITY_NET_CHANGE |-> NA, QUANTITY_CHANGE_PCT |-> NA,
     MARKET_VALUE_NET_CHANGE |-> NA, MARKET_VALUE_CHANGE_PCT |-> NA,
     MAX_DRAW_DOWN |-> NA, PRICE_TO_COST_RATIO |-> NA, SRC |-> {}]

NullTrans ==
    [ACCOUNTID_TRANS |-> NA, MONTH_TRANS |-> NA, NUM_TRANSACTIONS |-> NA,
     TRADE_DAYS |-> NA, CASH_FLOW |-> NA, AVG_BOOKAMOUNT |-> NA,
     REALIZED_GAIN |-> NA, REALIZED_LOSS |-> NA,
     TRANSACTION_AMOUNT_TOTAL |-> NA, NET_REALIZED_PNL |-> NA,
     NET_REALIZED_PNL_PCT |-> NA, SRC_TRANS |-> {}]

\* suffixes=('', '_TRANS'): the right-hand columns whose names the left table
\* already has are renamed.
TransSuffixed(r) ==
    [ACCOUNTID_MONTH          |-> r.ACCOUNTID_MONTH,
     ACCOUNTID_TRANS          |-> r.ACCOUNTID,
     MONTH_TRANS              |-> r.MONTH,
     NUM_TRANSACTIONS         |-> r.NUM_TRANSACTIONS,
     TRADE_DAYS               |-> r.TRADE_DAYS,
     CASH_FLOW                |-> r.CASH_FLOW,
     AVG_BOOKAMOUNT           |-> r.AVG_BOOKAMOUNT,
     REALIZED_GAIN            |-> r.REALIZED_GAIN,
     REALIZED_LOSS            |-> r.REALIZED_LOSS,
     TRANSACTION_AMOUNT_TOTAL |-> r.TRANSACTION_AMOUNT_TOTAL,
     NET_REALIZED_PNL         |-> r.NET_REALIZED_PNL,
     NET_REALIZED_PNL_PCT     |-> r.NET_REALIZED_PNL_PCT,
     SRC_TRANS                |-> r.SRC]

RECURSIVE Flatten(_)
Flatten(ss) == IF ss = << >> THEN << >> ELSE ss[1] \o Flatten(Tail(ss))

\* The rows a left row l becomes: one per right row with l's key, or l with
\* missing right-hand columns when there is none.
MatchRows(l, R, nulls) ==
    LET ms == SelectSeq(R, LAMBDA r : r.ACCOUNTID_MONTH = l.ACCOUNTID_MONTH)
    IN  IF ms = << >> THEN <<l @@ nulls>>
        ELSE [j \in 1..Len(ms) |-> l @@ ms[j]]

\* pd.merge(L, R, on='ACCOUNTID_MONTH', how='left')
LeftMerge(L, R, nulls) ==
    Flatten([i \in 1..Len(L) |-> MatchRows(L[i], R, nulls)])

-----------------------------------------------------------------------------
(* The inputs. *)

Ts(y, m, d, h) == [y |-> y, m |-> m, d |-> d, h |-> h]

Years == 2023..(2022 + NumYears)

\* Open and close dates: early and late days of the months around the turn of
\* the year, at midnight or at noon.
AccountDates ==
    {Ts(y, m, d, h) : y \in Years, m \in {1, 2, 3, 12}, d \in {10, 20}, h \in {0, 12}}

\* line 114: today, at midnight.
Todays == {Ts(y, m, 15, 0) : y \in Years, m \in {2, 12}}

Account(id, open, close) ==
    [ID |-> id, ACCOUNTOPENDATE |-> open, ACCOUNTCLOSEDATE |-> close,
     ACCOUNT_AGE_DAYS |-> 99999]

Snapshot(id, asof, ugl, qty, mv, cost) ==
    [idx |-> 0, ACCOUNTID |-> id, BE_ASOF |-> asof, DAILY_BOOKUGL |-> ugl,
     TOTAL_DAILY_QUANTITY |-> qty, DAY_BOOK_MARKET_VALUE |-> mv,
     DAILY_ORIGINAL_COST_SUM |-> cost,
     AVG_BOOK_PRICE_PERIODEND |-> NA, AVG_BOOK_UNIT_COST |-> NA]

\* The snapshot s with values in its two price columns.
Priced(s, price, unit_cost) ==
    [s EXCEPT !.AVG_BOOK_PRICE_PERIODEND = price, !.AVG_BOOK_UNIT_COST = unit_cost]

Transaction(id, date, amount, gain, loss) ==
    [idx |-> 0, ACCOUNTID |-> id, EVENTDATE |-> date, BOOKAMOUNT |-> amount,
     BOOKTOTALGAIN |-> gain, BOOKTOTALLOSS |-> loss]

\* A table read from a CSV file: row i has index label i.
Indexed(df) == [i \in 1..Len(df) |-> [df[i] EXCEPT !.idx = i]]

\* The tables of at most n rows drawn from S.
Tables(S, n) == UNION {[1..k -> S] : k \in 0..n}

\* The second account of the wide account runs.
OtherAccounts ==
    {Account(12, Ts(2023, 12, 10, 0), NaT),
     Account(12, Ts(2023, 1, 20, 12), Ts(2024, 2, 10, 0))}

FixedPnl ==
    <<Snapshot(1, Ts(2023, 12, 5, 0), Num(5), Num(10), Num(100), Num(90))>>

FixedTransactions ==
    <<Transaction(1, Ts(2023, 12, 7, 0), Num(-50), Num(0), Num(0))>>

RunIdle ==
    /\ env = << >>
    /\ connection = "none"
    /\ started = << >>
    /\ artifacts = {}
    /\ result = << >>
    /\ account_master = << >>
    /\ run_pc = "not started"

StartState ==
    /\ RunIdle
    /\ pnl_agg = << >>
    /\ transaction_agg = << >>
    /\ rows = << >>
    /\ acct_i = 1
    /\ Account_monthly_aggregated = << >>
    /\ df_merged = << >>
    /\ files = {}
    /\ stdout = << >>
    /\ pc = "aggregate_pnl"
    /\ current_date = 0
    /\ account_df = << >>
    /\ performance_df = << >>
    /\ transaction_df = << >>
    /\ performance_features = << >>
    /\ transaction_features = << >>
    /\ feature_df = << >>
    /\ fe_pc = "not started"

\* Accounts with every combination of open and close date, one reference date.
Init ==
    /\ today \in Todays
    /\ \E open \in AccountDates \cup {NaT}, close \in AccountDates \cup {NaT},
          other \in OtherAccounts :
          df_accounts = <<Account(1, open, close), other>>
    /\ df_pnl = Indexed(FixedPnl)
    /\ df_transactions = Indexed(FixedTransactions)
    /\ StartState

\* The values of a snapshot: <<DAILY_BOOKUGL, TOTAL_DAILY_QUANTITY,
\* DAY_BOOK_MARKET_VALUE, DAILY_ORIGINAL_COST_SUM>>, some of them missing.
SnapshotValues ==
    {<<Num(5), Num(10), Num(100), Num(90)>>,
     <<Num(-3), Num(20), Num(150), Num(95)>>,
     <<NA, Num(30), NA, NA>>}

\* Snapshots of two accounts, on two days of one month and in the next month.
Snapshots ==
    {Snapshot(k[1], k[2], v[1], v[2], v[3], v[4]) :
        k \in {<<1, Ts(2023, 3, 5, 0)>>, <<1, Ts(2023, 3, 20, 0)>>,
                <<1, Ts(2023, 4, 2, 0)>>, <<12, Ts(2023, 3, 5, 0)>>},
        v \in SnapshotValues}

\* Every table of snapshots, in every order, joined to one account.
InitAgg ==
    /\ today = Ts(2023, 4, 15, 0)
    /\ df_accounts = <<Account(1, Ts(2023, 1, 10, 0), NaT)>>
    /\ \E t \in Tables(Snapshots, MaxSnapshots) : df_pnl = Indexed(t)
    /\ df_transactions = Indexed(FixedTransactions)
    /\ StartState

\* Account tables for the joins: accounts with and without rows.
JoinAccounts ==
    {<<Account(1, o1, c1), Account(12, o2, NaT)>> :
        o1 \in {NaT, Ts(2023, 1, 10, 0)}, c1 \in {NaT, Ts(2023, 3, 20, 0)},
        o2 \in {NaT, Ts(2023, 2, 10, 0)}}

\* Snapshots and transactions of accounts 1 and 12 and of an account 2 that
\* the accounts table does not have, in months inside and outside the panel.
JoinSnapshots ==
    {Snapshot(id, d, Num(5), Num(10), Num(100), Num(90)) :
        id \in {1, 12, 2}, d \in {Ts(2023, 1, 5, 0), Ts(2023, 3, 5, 0)}}

JoinTransactions ==
    {Transaction(id, d, Num(-50), Num(4), Num(-1)) :
        id \in {1, 2}, d \in {Ts(2022, 12, 5, 0), Ts(2023, 3, 7, 0)}}

InitJoin ==
    /\ today = Ts(2023, 3, 15, 0)
    /\ df_accounts \in JoinAccounts
    /\ \E t \in Tables(JoinSnapshots, MaxJoinSnapshots) : df_pnl = Indexed(t)
    /\ \E t \in Tables(JoinTransactions, MaxJoinTransactions) :
          df_transactions = Indexed(t)
    /\ StartState

\* The values of a snapshot with its two price columns: <<DAILY_BOOKUGL,
\* TOTAL_DAILY_QUANTITY, DAY_BOOK_MARKET_VALUE, AVG_BOOK_PRICE_PERIODEND,
\* AVG_BOOK_UNIT_COST>>, with zeros, with unit costs that average to zero
\* and with missing values.
RatioValues ==
    {<<Num(0), Num(0), Num(0), Num(0), Num(4)>>,
     <<Num(5), Num(10), Num(100), Num(12), Num(4)>>,
     <<Num(-5), Num(20), Num(150), Num(0), Num(-4)>>,
     <<NA, NA, NA, NA, Num(3)>>,
     <<NA, NA, NA, Num(7), NA>>}

RatioSnapshots ==
    {Priced(Snapshot(1, d, v[1], v[2], v[3], Num(90)), v[4], v[5]) :
        d \in {Ts(2023, 3, 5, 0), Ts(2023, 3, 20, 0)}, v \in RatioValues}

\* Transactions of one month: amounts that are zero, that cancel or are
\* missing, with a realized gain and loss.
RatioTransactions ==
    {Transaction(1, Ts(2023, 3, 7, 0), amount, Num(4), Num(-1)) :
        amount \in {Num(0), Num(-50), NA}}

\* Every table of such snapshots and transactions, joined to one account.
InitRatio ==
    /\ today = Ts(2023, 4, 15, 0)
    /\ df_accounts = <<Account(1, Ts(2023, 1, 10, 0), NaT)>>
    /\ \E t \in Tables(RatioSnapshots, MaxRatioSnapshots) : df_pnl = Indexed(t)
    /\ \E t \in Tables(RatioTransactions, MaxRatioTransactions) :
          df_transactions = Indexed(t)
    /\ StartState

\* Records with a valid, a missing and an unparseable timestamp.
DirtySnapshots ==
    {Snapshot(id, d, Num(5), Num(10), Num(100), Num(90)) :
        id \in {1, 12}, d \in {Ts(2023, 3, 5, 0), NaT, Malformed}}

DirtyTransactions ==
    {Transaction(1, d, Num(-50), Num(4), Num(-1)) :
        d \in {Ts(2023, 3, 7, 0), NaT, Malformed}}

InitDirty ==
    /\ today = Ts(2023, 4, 15, 0)
    /\ df_accounts = <<Account(1, Ts(2023, 1, 10, 0), NaT)>>
    /\ \E t \in Tables(DirtySnapshots, MaxDirtySnapshots) : df_pnl = Indexed(t)
    /\ \E t \in Tables(DirtyTransactions, MaxDirtyTransactions) :
          df_transactions = Indexed(t)
    /\ StartState

-----------------------------------------------------------------------------
(* The script, step by step. *)

\* A line the script prints: its text, the number formatted into it and the
\* account it names.  The script's print calls (lines 67, 105, 163, 166, 167
\* and 177) name no account, and the script has no other output.
Printed(text, value) == [text |-> text, value |-> value, account |-> NA]

\* lines 63-67; an exception ends the script.
AggregatePnl ==
    /\ pc = "aggregate_pnl"
    /\ UNCHANGED feVars
    /\ UNCHANGED runVars
    /\ IF PnlRaises(df_pnl)
       THEN /\ pc' = "failed"
            /\ UNCHANGED <<pnl_agg, files, stdout>>
       ELSE /\ pnl_agg' = aggregate_pnl_monthly(df_pnl)
            /\ files' = files \cup {"PNL_monthly_aggregated.csv"}
            /\ stdout' = Append(stdout,
                   Printed("PNL monthly aggregated data saved as 'PNL_monthly_aggregated.csv'", NA))
            /\ pc' = "aggregate_transactions"
    /\ UNCHANGED <<today, df_accounts, df_pnl, df_transactions, transaction_agg,
                   rows, acct_i, Account_monthly_aggregated, df_merged>>

\* lines 101-105; an exception ends the script.
AggregateTransactions ==
    /\ pc = "aggregate_transactions"
    /\ UNCHANGED feVars
    /\ UNCHANGED runVars
    /\ IF TransRaises(df_transactions)
       THEN /\ pc' = "failed"
            /\ UNCHANGED <<transaction_agg, files, stdout>>
       ELSE /\ transaction_agg' = aggregate_transactions_monthly(df_transactions)
            /\ files' = files \cup {"Transaction_monthly_aggregated.csv"}
            /\ stdout' = Append(stdout,
                   Printed("Transaction monthly aggregated saved as 'Transaction_monthly_aggregated.csv'", NA))
            /\ pc' = "accounts"
    /\ UNCHANGED <<today, df_accounts, df_pnl, df_transactions, pnl_agg,
                   rows, acct_i, Account_monthly_aggregated, df_merged>>

\* lines 146-147: one iteration of the loop over the accounts.
ExpandAccount ==
    /\ pc = "accounts"
    /\ UNCHANGED feVars
    /\ UNCHANGED runVars
    /\ acct_i <= Len(df_accounts)
    /\ rows' = rows \o generate_monthly_rows(df_accounts[acct_i], today)
    /\ acct_i' = acct_i + 1
    /\ UNCHANGED <<today, df_accounts, df_pnl, df_transactions, pnl_agg,
                   transaction_agg, Account_monthly_aggregated, df_merged, files,
                   stdout, pc>>

\* lines 149-163: with no row at all the frame has no column 'ID' and line 153
\* raises KeyError.
BuildPanel ==
    /\ pc = "accounts"
    /\ UNCHANGED feVars
    /\ UNCHANGED runVars
    /\ acct_i > Len(df_accounts)
    /\ IF rows = << >>
       THEN /\ pc' = "failed"
            /\ UNCHANGED <<Account_monthly_aggregated, files, stdout>>
       ELSE /\ Account_monthly_aggregated' = [i \in 1..Len(rows) |-> PanelRow(rows[i])]
            /\ files' = files \cup {"Account_monthly_aggregated.csv"}
            /\ stdout' = stdout \o
                   <<Printed("Exported to Account_monthly_aggregated.csv", NA),
                     Printed("Account_monthly_aggregated.head()", NA),
                     Printed("Total rows: ", Num(Len(rows)))>>
            /\ pc' = "merge_pnl"
    /\ UNCHANGED <<today, df_accounts, df_pnl, df_transactions, pnl_agg,
                   transaction_agg, rows, acct_i, df_merged>>

\* line 170
MergePnl ==
    /\ pc = "merge_pnl"
    /\ UNCHANGED feVars
    /\ UNCHANGED runVars
    /\ df_merged' = LeftMerge(Account_monthly_aggregated, pnl_agg, NullPnl)
    /\ pc' = "merge_transactions"
    /\ UNCHANGED <<today, df_accounts, df_pnl, df_transactions, pnl_agg,
                   transaction_agg, rows, acct_i, Account_monthly_aggregated, files,
                   stdout>>

\* lines 173-177
MergeTransactions ==
    /\ pc = "merge_transactions"
    /\ UNCHANGED feVars
    /\ UNCHANGED runVars
    /\ df_merged' = LeftMerge(df_merged,
                              [n \in 1..Len(transaction_agg) |->
                                  TransSuffixed(transaction_agg[n])],
                              NullTrans)
    /\ files' = files \cup {"Merged_sampledata.csv"}
    /\ stdout' = Append(stdout, Printed("Exported to Merged_sampledata.csv", NA))
    /\ pc' = "done"
    /\ UNCHANGED <<today, df_accounts, df_pnl, df_transactions, pnl_agg,
                   transaction_agg, rows, acct_i, Account_monthly_aggregated>>

Next ==
    \/ AggregatePnl
    \/ AggregateTransactions
    \/ ExpandAccount
    \/ BuildPanel
    \/ MergePnl
    \/ MergeTransactions

Spec == Init /\ [][Next]_vars

SpecAgg == InitAgg /\ [][Next]_vars

SpecJoin == InitJoin /\ [][Next]_vars

SpecRatio == InitRatio /\ [][Next]_vars

SpecDirty == InitDirty /\ [][Next]_vars

-----------------------------------------------------------------------------
(* The monthly rows of the accounts: claims about generate_monthly_rows. *)

\* The accounts the loop of line 146 has gone through.
Expanded == {k \in 1..Len(df_accounts) : k < acct_i}

\* The rows generated for account k, in the order they were generated.
RowsOf(k) == SelectSeq(rows, LAMBDA r : r.ID = df_accounts[k].ID)

HasOpen(k) == ~IsNull(df_accounts[k].ACCOUNTOPENDATE)

HasClose(k) == ~IsNull(df_accounts[k].ACCOUNTCLOSEDATE)

OpenM(k) == MonthIndex(df_accounts[k].ACCOUNTOPENDATE)

CloseM(k) == MonthIndex(df_accounts[k].ACCOUNTCLOSEDATE)

TodayM == MonthIndex(today)

Min(a, b) == IF a < b THEN a ELSE b

Max(a, b) == IF a < b THEN b ELSE a

\* The month the rows of account k end with by the code: the close month, or
\* the reference month when the account has no close date.
AnchorM(k) == IF HasClose(k) THEN CloseM(k) ELSE TodayM

\* The hour end_month carries: the close date's, or midnight (today's).
AnchorH(k) == IF HasClose(k) THEN df_accounts[k].ACCOUNTCLOSEDATE.h ELSE today.h

\* The month the rows of account k begin with.
FirstM(k) == Max(OpenM(k), AnchorM(k) - LookbackMonths)

\* The hour start_month carries: the open date's when the open month bounds
\* the rows, end_month's when the lookback does.
FirstH(k) ==
    IF OpenM(k) > AnchorM(k) - LookbackMonths THEN df_accounts[k].ACCOUNTOPENDATE.h
    ELSE IF OpenM(k) < AnchorM(k) - LookbackMonths THEN AnchorH(k)
    ELSE IF IsMonthEnd(SubMonths(EndMonth(df_accounts[k], today), LookbackMonths))
         THEN Max(df_accounts[k].ACCOUNTOPENDATE.h, AnchorH(k))
         ELSE df_accounts[k].ACCOUNTOPENDATE.h

\* Account k's dates carry no time of day.
AtMidnight(k) ==
    df_accounts[k].ACCOUNTOPENDATE.h = 0 /\ df_accounts[k].ACCOUNTCLOSEDATE.h = 0

\* Account k has no close date after the reference month.
NotClosedLater(k) == HasClose(k) => CloseM(k) <= TodayM

\* C1: every generated row has CHURN_FLAG = 1 exactly when its account has a
\* close date and the row's (year, month) is the close date's (year, month);
\* every other row, and every row of an account with no close date, has 0.
C1_ChurnFlagIffCloseMonth ==
    \A i \in 1..Len(rows) :
        /\ rows[i].CHURN_FLAG \in {0, 1}
        /\ rows[i].CHURN_FLAG = 1 <=>
              /\ ~IsNull(rows[i].ACCOUNTCLOSEDATE)
              /\ MonthIndex(rows[i].ACCOUNT_MONTH) = MonthIndex(rows[i].ACCOUNTCLOSEDATE)

\* An account with a close date has been expanded into flagged and unflagged
\* rows, and an account without close date into rows.
C1_Witness ==
    /\ \E i, j \in 1..Len(rows) :
          /\ rows[i].ID = rows[j].ID
          /\ rows[i].CHURN_FLAG = 1
          /\ rows[j].CHURN_FLAG = 0
    /\ \E i \in 1..Len(rows) : IsNull(rows[i].ACCOUNTCLOSEDATE)

\* C2 (as claimed, for accounts closed by the reference month): an expanded
\* account with an open date, a close date and at least one row has exactly
\* one row with CHURN_FLAG = 1, the row of the close month, all rows before
\* it have 0; no account has two flagged rows.
C2_ExactlyOneChurnRow ==
    \A k \in Expanded :
        LET rs == RowsOf(k)
            flagged == {i \in 1..Len(rs) : rs[i].CHURN_FLAG = 1}
        IN  /\ Cardinality(flagged) <= 1
            /\ (HasOpen(k) /\ HasClose(k) /\ NotClosedLater(k) /\ Len(rs) > 0) =>
                  /\ Cardinality(flagged) = 1
                  /\ \A i \in flagged :
                        /\ MonthIndex(rs[i].ACCOUNT_MONTH) = CloseM(k)
                        /\ \A j \in 1..(i - 1) : rs[j].CHURN_FLAG = 0

\* C3: the rows of one account are consecutive calendar month ends in
\* strictly increasing order, with no gap and no repeated month, and the key
\* ACCOUNTID_MONTH is unique across the whole panel.
C3_ConsecutiveMonthsUniqueKey ==
    /\ \A k \in Expanded :
          LET rs == RowsOf(k)
          IN  /\ \A i \in 1..Len(rs) : IsMonthEnd(rs[i].ACCOUNT_MONTH)
              /\ \A i \in 1..(Len(rs) - 1) :
                    MonthIndex(rs[i + 1].ACCOUNT_MONTH) = MonthIndex(rs[i].ACCOUNT_MONTH) + 1
    /\ \A i, j \in 1..Len(Account_monthly_aggregated) :
          i # j => Account_monthly_aggregated[i].ACCOUNTID_MONTH
                     # Account_monthly_aggregated[j].ACCOUNTID_MONTH

\* The panel is built from two accounts, one of which runs over the turn of
\* a year.
C3_Witness ==
    /\ pc = "merge_pnl"
    /\ \E i, j \in 1..Len(rows) : rows[i].ID # rows[j].ID
    /\ \E i \in 1..(Len(rows) - 1) :
          /\ rows[i].ID = rows[i + 1].ID
          /\ rows[i].ACCOUNT_MONTH.m = 12
          /\ rows[i + 1].ACCOUNT_MONTH.m = 1

C5_LastMonthMinCloseToday ==
    \A k \in Expanded :
        (HasOpen(k) /\ AtMidnight(k)) =>
            LET rs == RowsOf(k)
                last == IF HasClose(k) THEN Min(CloseM(k), TodayM) ELSE TodayM
            IN  /\ \A i \in 1..Len(rs) : MonthIndex(rs[i].ACCOUNT_MONTH) <= last
                /\ Len(rs) > 0 => MonthIndex(rs[Len(rs)].ACCOUNT_MONTH) = last

C7_AccountAgeDays ==
    \A k \in Expanded :
        LET rs   == RowsOf(k)
            open == df_accounts[k].ACCOUNTOPENDATE
        IN  /\ \A i \in 1..Len(rs) :
                  /\ rs[i].ACCOUNT_AGE_DAYS =
                        DayNumber(rs[i].ACCOUNT_MONTH) - DayNumber(open)
                          - (IF rs[i].ACCOUNT_MONTH.h < open.h THEN 1 ELSE 0)
                  /\ rs[i].ACCOUNT_AGE_DAYS >= 0
            /\ \A i \in 1..(Len(rs) - 1) :
                  rs[i].ACCOUNT_AGE_DAYS < rs[i + 1].ACCOUNT_AGE_DAYS

\* An account whose record carries another age has several rows, the first
\* in the month it opened.
C7_Witness ==
    \E k \in Expanded :
        /\ Len(RowsOf(k)) >= 3
        /\ MonthIndex(RowsOf(k)[1].ACCOUNT_MONTH) = OpenM(k)
        /\ RowsOf(k)[1].ACCOUNT_AGE_DAYS # df_accounts[k].ACCOUNT_AGE_DAYS
        /\ RowsOf(k)[1].ACCOUNT_AGE_DAYS < 30

-----------------------------------------------------------------------------
(* The aggregates and the joins. *)

Joined == pc \in {"merge_transactions", "done"}

\* The snapshots (transactions) of the panel row rows[n]'s account and month.
SnapshotsOf(n) ==
    {i \in 1..Len(df_pnl) :
        /\ df_pnl[i].ACCOUNTID = rows[n].ID
        /\ MonthIndex(df_pnl[i].BE_ASOF) = MonthIndex(rows[n].ACCOUNT_MONTH)}

TransactionsOf(n) ==
    {i \in 1..Len(df_transactions) :
        /\ df_transactions[i].ACCOUNTID = rows[n].ID
        /\ MonthIndex(df_transactions[i].EVENTDATE) = MonthIndex(rows[n].ACCOUNT_MONTH)}

C9_RecordsReachTheirRowOnly ==
    pc = "done" =>
        /\ Len(df_merged) = Len(rows)
        /\ \A n \in 1..Len(df_merged) :
              /\ df_merged[n].ID = rows[n].ID
              /\ df_merged[n].SRC = SnapshotsOf(n)
              /\ df_merged[n].SRC_TRANS = TransactionsOf(n)

\* Merged rows with snapshots and with transactions, beside snapshots of a
\* month outside the panel and of an account that is not in the table.
C9_Witness ==
    /\ pc = "done"
    /\ \E n \in 1..Len(df_merged) : df_merged[n].SRC # {}
    /\ \E n \in 1..Len(df_merged) : df_merged[n].SRC_TRANS # {}
    /\ \E i \in 1..Len(df_pnl) : \A n \in 1..Len(df_merged) : i \notin df_merged[n].SRC
    /\ \E n, n2 \in 1..Len(df_merged) :
          df_merged[n].ID # df_merged[n2].ID /\ df_merged[n2].SRC # {}

\* The snapshots of the group an aggregate row a was computed from.
GroupOf(a) == a.SRC

\* Snapshot i is dated before snapshot j, or on the same date and earlier in
\* the input.
Earlier(i, j) ==
    \/ TsLess(df_pnl[i].BE_ASOF, df_pnl[j].BE_ASOF)
    \/ df_pnl[i].BE_ASOF = df_pnl[j].BE_ASOF /\ i < j

\* The value Field of the earliest (latest) snapshot among S.
ValueOfEarliest(S, field) ==
    IF S = {} THEN NA
    ELSE df_pnl[CHOOSE i \in S : \A j \in S \ {i} : Earlier(i, j)][field]

ValueOfLatest(S, field) ==
    IF S = {} THEN NA
    ELSE df_pnl[CHOOSE i \in S : \A j \in S \ {i} : Earlier(j, i)][field]

\* The snapshots among S that have a value in Field.
Having(S, field) == {i \in S : ~IsNA(df_pnl[i][field])}

\* C10 (as claimed, for months whose snapshots have distinct dates): the
\* 'first' fields are the values of the month's earliest snapshot and the
\* 'last' fields those of its latest, missing values included, and
\* MARKET_VALUE_CHANGE_PCT is (latest - earliest) / earliest market value.
C10_FirstLastOfEarliestLatest ==
    pc # "aggregate_pnl" =>
        \A n \in 1..Len(PnlAggregateAll(df_pnl)) :
            LET a == PnlAggregateAll(df_pnl)[n]
                S == GroupOf(a)
            IN  (\A i, j \in S : i # j => df_pnl[i].BE_ASOF # df_pnl[j].BE_ASOF) =>
                  /\ a.START_BOOKUGL = ValueOfEarliest(S, "DAILY_BOOKUGL")
                  /\ a.FIRST_QUANTITY = ValueOfEarliest(S, "TOTAL_DAILY_QUANTITY")
                  /\ a.FIRST_MARKET_VALUE = ValueOfEarliest(S, "DAY_BOOK_MARKET_VALUE")
                  /\ a.ORIGINAL_INVESTED = ValueOfEarliest(S, "DAILY_ORIGINAL_COST_SUM")
                  /\ a.END_BOOKUGL = ValueOfLatest(S, "DAILY_BOOKUGL")
                  /\ a.LAST_QUANTITY = ValueOfLatest(S, "TOTAL_DAILY_QUANTITY")
                  /\ a.LAST_MARKET_VALUE = ValueOfLatest(S, "DAY_BOOK_MARKET_VALUE")
                  /\ a.MARKET_VALUE_CHANGE_PCT =
                        NDiv(NSub(ValueOfLatest(S, "DAY_BOOK_MARKET_VALUE"), ValueOfEarliest(S, "DAY_BOOK_MARKET_VALUE")),
                             ReplaceZeroNA(ValueOfEarliest(S, "DAY_BOOK_MARKET_VALUE")))

\* C10 (amended): each 'first' field is the value of the earliest snapshot of
\* the month that has a value in that field, each 'last' field the value of
\* the latest one that has; of snapshots with the same date the one earlier
\* in the input counts as earlier; the field is missing only when no snapshot
\* of the month has a value.  MARKET_VALUE_CHANGE_PCT is
\* (LAST - FIRST) / FIRST of the market values so chosen, whatever the
\* order of the input.
C10_FirstLastNonMissing ==
    pc # "aggregate_pnl" =>
        \A n \in 1..Len(PnlAggregateAll(df_pnl)) :
            LET a == PnlAggregateAll(df_pnl)[n]
                S == GroupOf(a)
                first_mv == ValueOfEarliest(Having(S, "DAY_BOOK_MARKET_VALUE"), "DAY_BOOK_MARKET_VALUE")
                last_mv  == ValueOfLatest(Having(S, "DAY_BOOK_MARKET_VALUE"), "DAY_BOOK_MARKET_VALUE")
            IN  /\ S = {i \in 1..Len(df_pnl) : PnlKey(df_pnl[i]) = a.ACCOUNTID_MONTH}
                /\ a.START_BOOKUGL = ValueOfEarliest(Having(S, "DAILY_BOOKUGL"), "DAILY_BOOKUGL")
                /\ a.FIRST_QUANTITY = ValueOfEarliest(Having(S, "TOTAL_DAILY_QUANTITY"), "TOTAL_DAILY_QUANTITY")
                /\ a.FIRST_MARKET_VALUE = first_mv
                /\ a.ORIGINAL_INVESTED = ValueOfEarliest(Having(S, "DAILY_ORIGINAL_COST_SUM"), "DAILY_ORIGINAL_COST_SUM")
                /\ a.END_BOOKUGL = ValueOfLatest(Having(S, "DAILY_BOOKUGL"), "DAILY_BOOKUGL")
                /\ a.LAST_QUANTITY = ValueOfLatest(Having(S, "TOTAL_DAILY_QUANTITY"), "TOTAL_DAILY_QUANTITY")
                /\ a.LAST_MARKET_VALUE = last_mv
                /\ a.MARKET_VALUE_CHANGE_PCT =
                      IF IsNA(first_mv) \/ first_mv = Num(0) THEN NA
                      ELSE <<last_mv[1] - first_mv[1], first_mv[1]>>

\* A month's snapshots come in the input latest first, the earliest of them
\* has no market value, and two of them share a date.
C10_Witness ==
    /\ pc = "done"
    /\ \E i, j, l \in 1..Len(df_pnl) :
          /\ i < j /\ j < l
          /\ PnlKey(df_pnl[i]) = PnlKey(df_pnl[j])
          /\ PnlKey(df_pnl[j]) = PnlKey(df_pnl[l])
          /\ TsLess(df_pnl[j].BE_ASOF, df_pnl[i].BE_ASOF)
          /\ df_pnl[l].BE_ASOF = df_pnl[j].BE_ASOF
          /\ IsNA(df_pnl[j].DAY_BOOK_MARKET_VALUE)
          /\ ~IsNA(df_pnl[i].DAY_BOOK_MARKET_VALUE)
          /\ ~IsNA(df_pnl[l].DAY_BOOK_MARKET_VALUE)

-----------------------------------------------------------------------------
(* The derived ratios of the two aggregators. *)

\* C11 (as claimed): every derived ratio is missing exactly when its
\* denominator is zero.
C11_MissingIffDenominatorZero ==
    pc \notin {"aggregate_pnl", "aggregate_transactions"} =>
        /\ \A n \in 1..Len(PnlAggregateAll(df_pnl)) :
              LET a == PnlAggregateAll(df_pnl)[n]
              IN  /\ IsNA(a.UGL_CHANGE_PCT) <=> (NAbs(a.START_BOOKUGL) = Num(0))
                  /\ IsNA(a.QUANTITY_CHANGE_PCT) <=> (a.FIRST_QUANTITY = Num(0))
                  /\ IsNA(a.MARKET_VALUE_CHANGE_PCT) <=> (a.FIRST_MARKET_VALUE = Num(0))
                  /\ IsNA(a.PRICE_TO_COST_RATIO) <=>
                        (~IsNA(a.AVG_UNIT_COST) /\ a.AVG_UNIT_COST[1] = 0)
        /\ \A n \in 1..Len(transaction_agg) :
              IsNA(transaction_agg[n].NET_REALIZED_PNL_PCT) <=>
                  (transaction_agg[n].TRANSACTION_AMOUNT_TOTAL = Num(0))

\* C11 (amended): every derived ratio is missing exactly when its denominator
\* is zero or one of its two operands is missing, and is the quotient of its
\* operands otherwise: a zero denominator gives neither an error nor the
\* value 0.  The operands of NET_REALIZED_PNL_PCT are sums and never
\* missing, so it is missing exactly when TRANSACTION_AMOUNT_TOTAL = 0.
C11_MissingIffZeroOrMissingOperand ==
    pc \notin {"aggregate_pnl", "aggregate_transactions"} =>
        /\ Len(pnl_agg) = Len(PnlAggregateAll(df_pnl))
        /\ \A n \in 1..Len(pnl_agg) :
              LET a == PnlAggregateAll(df_pnl)[n]
                  Quotient(num, den) ==
                      IF IsNA(num) \/ IsNA(den) \/ den[1] = 0 THEN NA
                      ELSE <<num[1], den[1]>>
              IN  /\ pnl_agg[n].UGL_CHANGE_PCT =
                        Quotient(NSub(a.END_BOOKUGL, a.START_BOOKUGL), NAbs(a.START_BOOKUGL))
                  /\ pnl_agg[n].QUANTITY_CHANGE_PCT =
                        Quotient(NSub(a.LAST_QUANTITY, a.FIRST_QUANTITY), a.FIRST_QUANTITY)
                  /\ pnl_agg[n].MARKET_VALUE_CHANGE_PCT =
                        Quotient(NSub(a.LAST_MARKET_VALUE, a.FIRST_MARKET_VALUE),
                                 a.FIRST_MARKET_VALUE)
                  /\ pnl_agg[n].PRICE_TO_COST_RATIO =
                        IF IsNA(a.AVG_PRICE_PERIODEND) \/ IsNA(a.AVG_UNIT_COST)
                           \/ a.AVG_UNIT_COST[1] = 0
                        THEN NA
                        ELSE <<a.AVG_PRICE_PERIODEND[1] * a.AVG_UNIT_COST[2],
                               a.AVG_PRICE_PERIODEND[2] * a.AVG_UNIT_COST[1]>>
        /\ \A n \in 1..Len(transaction_agg) :
              LET t == transaction_agg[n]
              IN  /\ ~IsNA(t.TRANSACTION_AMOUNT_TOTAL) /\ ~IsNA(t.NET_REALIZED_PNL)
                  /\ IsNA(t.NET_REALIZED_PNL_PCT) <=> (t.TRANSACTION_AMOUNT_TOTAL = Num(0))
                  /\ ~IsNA(t.NET_REALIZED_PNL_PCT) =>
                        t.NET_REALIZED_PNL_PCT =
                            <<t.NET_REALIZED_PNL[1], t.TRANSACTION_AMOUNT_TOTAL[1]>>

\* Both aggregates are computed: a month whose four denominators are all
\* zero, among them unit costs 4 and -4 that average to zero, and a month of
\* transactions whose amounts sum to zero in absolute value beside gains.
C11_Witness ==
    /\ pc = "done"
    /\ \E n \in 1..Len(PnlAggregateAll(df_pnl)) :
          LET a == PnlAggregateAll(df_pnl)[n]
          IN  /\ a.START_BOOKUGL = Num(0) /\ a.END_BOOKUGL = Num(-5)
              /\ a.FIRST_QUANTITY = Num(0)
              /\ a.FIRST_MARKET_VALUE = Num(0)
              /\ a.AVG_UNIT_COST = <<0, 2>>
              /\ IsNA(pnl_agg[n].UGL_CHANGE_PCT)
              /\ IsNA(pnl_agg[n].PRICE_TO_COST_RATIO)
    /\ \E n \in 1..Len(transaction_agg) :
          /\ transaction_agg[n].TRANSACTION_AMOUNT_TOTAL = Num(0)
          /\ transaction_agg[n].NET_REALIZED_PNL = Num(3)
          /\ IsNA(transaction_agg[n].NET_REALIZED_PNL_PCT)

\* C12: in the merged panel a row whose account and month have no
\* transaction has transaction count 0 and net cash flow 0, while its
\* NET_REALIZED_PNL_PCT is missing.
C12_NoTransactionsCountZero ==
    pc = "done" =>
        \A n \in 1..Len(df_merged) :
            TransactionsOf(n) = {} =>
                /\ df_merged[n].NUM_TRANSACTIONS = Num(0)
                /\ df_merged[n].CASH_FLOW = Num(0)
                /\ IsNA(df_merged[n].NET_REALIZED_PNL_PCT)

-----------------------------------------------------------------------------
(* Accounts that cannot be expanded. *)

\* A printed line names account k.
SkipLogged(k) ==
    \E i \in 1..Len(stdout) : stdout[i].account = Num(df_accounts[k].ID)

\* C13: an account without a valid open date contributes no row, the skip is
\* logged, and the run goes on with the other accounts instead of failing.
C13_MissingOpenSkippedAndLogged ==
    \A k \in Expanded :
        ~HasOpen(k) =>
            /\ RowsOf(k) = << >>
            /\ pc # "failed"
            /\ pc = "done" =>
                  /\ SkipLogged(k)
                  /\ \A j \in 1..Len(df_accounts) :
                        Len(RowsOf(j)) = Len(generate_monthly_rows(df_accounts[j], today))

\* C14: an account whose close date is earlier than its open date gets no
\* row, also when the two dates are in the same calendar month, and the run
\* does not fail on it.
C14_CloseBeforeOpenExcluded ==
    \A k \in Expanded :
        (/\ HasOpen(k) /\ HasClose(k)
         /\ TsLess(df_accounts[k].ACCOUNTCLOSEDATE, df_accounts[k].ACCOUNTOPENDATE)) =>
            RowsOf(k) = << >>

-----------------------------------------------------------------------------
(* Records whose timestamp is missing or cannot be parsed. *)

\* The snapshots (transactions) without a valid timestamp.
BadSnapshots == {i \in 1..Len(df_pnl) : df_pnl[i].BE_ASOF \in {NaT, Malformed}}

BadTransactions ==
    {i \in 1..Len(df_transactions) : df_transactions[i].EVENTDATE \in {NaT, Malformed}}

\* C15: a record with a malformed timestamp does not abort the aggregation;
\* the record is in no account-month bucket, and the other records are
\* aggregated as they are without it.
C15_MalformedTimestampTolerated ==
    /\ pc # "failed"
    /\ pc \notin {"aggregate_pnl"} =>
          /\ \A n \in 1..Len(pnl_agg) : pnl_agg[n].SRC \cap BadSnapshots = {}
          /\ UNION {pnl_agg[n].SRC : n \in 1..Len(pnl_agg)} =
                (1..Len(df_pnl)) \ BadSnapshots
    /\ pc \notin {"aggregate_pnl", "aggregate_transactions"} =>
          /\ \A n \in 1..Len(transaction_agg) :
                transaction_agg[n].SRC \cap BadTransactions = {}
          /\ UNION {transaction_agg[n].SRC : n \in 1..Len(transaction_agg)} =
                (1..Len(df_transactions)) \ BadTransactions

-----------------------------------------------------------------------------
(* account_level_feature_engineering.py: AccountLevelFeatureEngineering.      *)
(* Timestamps are whole numbers of days and timedelta(days=D) is D.  The      *)
(* floats of the features are exact rationals <<numerator, denominator>>      *)
(* in lowest terms with a positive denominator; <<1, 0>> and <<-1, 0>> are    *)
(* the float infinities and the empty tuple is NaN.  The value columns of     *)
(* the input tables hold integers, none missing.                              *)

RInt(v) == <<v, 1>>

RECURSIVE Gcd(_, _)
Gcd(a, b) == IF b = 0 THEN a ELSE Gcd(b, a % b)

\* The float n / d, d >= 0.
Rat(n, d) ==
    IF d = 0 THEN <<(IF n > 0 THEN 1 ELSE -1), 0>>
    ELSE LET g == Gcd(Abs(n), d) IN <<n \div g, d \div g>>

IsInf(a) == ~IsNA(a) /\ a[2] = 0

RLess(a, b) == a[1] * b[2] < b[1] * a[2]

REq(a, b) == a[1] * b[2] = b[1] * a[2]

\* a + b, a * b and a / b on floats: NaN when an operand is NaN; a float
\* division by zero raises nothing, it is NaN for 0 / 0 and infinite otherwise.
RAdd(a, b) ==
    IF IsNA(a) \/ IsNA(b) THEN NA
    ELSE IF IsInf(a) THEN (IF IsInf(b) /\ a # b THEN NA ELSE a)
    ELSE IF IsInf(b) THEN b
    ELSE Rat(a[1] * b[2] + b[1] * a[2], a[2] * b[2])

RMul(a, b) ==
    IF IsNA(a) \/ IsNA(b) THEN NA
    ELSE IF (IsInf(a) /\ b[1] = 0) \/ (IsInf(b) /\ a[1] = 0) THEN NA
    ELSE Rat(a[1] * b[1], a[2] * b[2])

RDiv(a, b) ==
    IF IsNA(a) \/ IsNA(b) THEN NA
    ELSE IF b[1] = 0 THEN (IF a[1] = 0 THEN NA ELSE Rat(a[1], 0))
    ELSE IF b[1] > 0 THEN Rat(a[1] * b[2], a[2] * b[1])
    ELSE Rat(-(a[1] * b[2]), -(a[2] * b[1]))

RECURSIVE Total(_)
Total(xs) == IF xs = << >> THEN 0 ELSE xs[1] + Total(Tail(xs))

AbsAll(xs) == [i \in 1..Len(xs) |-> Abs(xs[i])]

\* Series.mean(), .max(), .min(), .sum() of a window that has rows.
Mean(xs) == Rat(Total(xs), Len(xs))

MaxOf(xs) ==
    RInt(CHOOSE v \in {xs[i] : i \in 1..Len(xs)} : \A j \in 1..Len(xs) : xs[j] <= v)

MinOf(xs) ==
    RInt(CHOOSE v \in {xs[i] : i \in 1..Len(xs)} : \A j \in 1..Len(xs) : v <= xs[j])

\* The integer square root of n >= 0, searched between lo and hi.
RECURSIVE ISqrtBetween(_, _, _)
ISqrtBetween(n, lo, hi) ==
    IF hi <= lo + 1 THEN lo
    ELSE LET mid == (lo + hi) \div 2
         IN  IF mid * mid <= n THEN ISqrtBetween(n, mid, hi)
             ELSE ISqrtBetween(n, lo, mid)

\* A number whose square is above n, found by doubling h.
RECURSIVE RootAbove(_, _)
RootAbove(n, h) == IF h * h > n THEN h ELSE RootAbove(n, 2 * h)

\* Series.std(): the sample standard deviation (ddof = 1), NaN for a single
\* row; the square root is rounded down to a hundredth.
Std(xs) ==
    LET n   == Len(xs)
        sq  == Total([i \in 1..n |-> xs[i] * xs[i]])
        num == n * sq - Total(xs) * Total(xs)
        q   == (num * 10000) \div (n * (n - 1))
    IN  IF n < 2 THEN NA ELSE Rat(ISqrtBetween(q, 0, RootAbove(q, 1)), 100)

\* slope of np.polyfit(np.arange(n), y, 1), n > 1: the least-squares line.
PolyfitSlope(ys) ==
    LET n   == Len(ys)
        sx  == Total([i \in 1..n |-> i - 1])
        sxx == Total([i \in 1..n |-> (i - 1) * (i - 1)])
        sxy == Total([i \in 1..n |-> (i - 1) * ys[i]])
    IN  Rat(n * sxy - sx * Total(ys), n * sxx - sx * sx)

\* Series.unique(): the values of a column in the order they first appear.
RECURSIVE Unique(_)
Unique(col) ==
    IF col = << >> THEN << >>
    ELSE LET rest == Unique(SubSeq(col, 1, Len(col) - 1))
             x    == col[Len(col)]
         IN  IF \E i \in 1..Len(rest) : rest[i] = x THEN rest ELSE Append(rest, x)

\* sort_values(field) of an account's rows, by insertion from the left.
RECURSIVE SortBy(_, _)
SortBy(df, field) ==
    IF df = << >> THEN << >>
    ELSE LET sorted == SortBy(SubSeq(df, 1, Len(df) - 1), field)
             x      == df[Len(df)]
             after  == {i \in 1..Len(sorted) : x[field] < sorted[i][field]}
             pos    == IF after = {} THEN Len(sorted) + 1
                       ELSE CHOOSE i \in after : \A j \in after : i <= j
         IN  SubSeq(sorted, 1, pos - 1) \o <<x>> \o SubSeq(sorted, pos, Len(sorted))

\* lines 40-41
performance_window_days == <<30, 90, 180, 365>>

transaction_window_days == <<30, 90, 180>>

\* The window lengths of a list, as the set of keys of a feature family:
\* the columns f'{metric}_{window_days}d' of a metric are one function of
\* window_days.
Windows(days) == {days[i] : i \in 1..Len(days)}

WindowRowsBefore(data, field, now, window_days) ==
    SelectSeq(data, LAMBDA r : r[field] < now - window_days)

\* lines 212-213 and 312-313: the rows of a trailing window, those dated at
\* or after cutoff_date = current_date - timedelta(days=window_days).
WindowRows(data, field, now, window_days) ==
    SelectSeq(data, LAMBDA r : r[field] >= now - window_days)

\* lines 191-252: the features of one account of performance_df.  A family
\* of columns f'{metric}_{window_days}d' is the field metric_d, a function
\* of window_days.  The asset-class features (lines 242-250, 258-262) are
\* left out.
PerformanceFeaturesOf(account, df, now) ==
    LET account_data == SortBy(SelectSeq(df, LAMBDA r : r.ACCOUNTSHORTNAME = account),
                               "BE_ASOF")
        latest_data  == account_data[Len(account_data)]
        W(D)  == WindowRows(account_data, "BE_ASOF", now, D)
        mv(D) == Column(W(D), "BOOKMARKETVALUEPERIODEND")
        ugl(D) == Column(W(D), "BOOKUGL")
        Ds    == Windows(performance_window_days)
    IN  [ACCOUNTSHORTNAME       |-> account,
         current_market_value   |-> RInt(latest_data.BOOKMARKETVALUEPERIODEND),
         current_unrealized_pnl |-> RInt(latest_data.BOOKUGL),
         avg_market_value_d     |->
             [D \in Ds |-> IF Len(W(D)) > 0 THEN Mean(mv(D)) ELSE RInt(0)],
         max_market_value_d     |->
             [D \in Ds |-> IF Len(W(D)) > 0 THEN MaxOf(mv(D)) ELSE RInt(0)],
         min_market_value_d     |->
             [D \in Ds |-> IF Len(W(D)) > 0 THEN MinOf(mv(D)) ELSE RInt(0)],
         std_market_value_d     |->
             [D \in Ds |-> IF Len(W(D)) > 0 THEN Std(mv(D)) ELSE RInt(0)],
         avg_unrealized_pnl_d   |->
             [D \in Ds |-> IF Len(W(D)) > 0 THEN Mean(ugl(D)) ELSE RInt(0)],
         total_unrealized_pnl_d |->
             [D \in Ds |-> IF Len(W(D)) > 0 THEN RInt(Total(ugl(D))) ELSE RInt(0)],
         market_value_trend_d   |->
             [D \in Ds |-> IF Len(W(D)) > 1 THEN PolyfitSlope(mv(D)) ELSE RInt(0)]]

\* lines 175-265: an empty DataFrame when there is no performance data,
\* else one row per account in the order of unique().
build_account_performance_features(df, now) ==
    IF Len(df) = 0 THEN << >>
    ELSE LET accounts == Unique(Column(df, "ACCOUNTSHORTNAME"))
         IN  [n \in 1..Len(accounts) |-> PerformanceFeaturesOf(accounts[n], df, now)]

\* lines 325-335: every iteration of the window loop assigns
\* days_since_last_transaction, so the value of the last window stays.
DaysSinceLastTransaction(account_txns, now) ==
    LET D == transaction_window_days[Len(transaction_window_days)]
        window_txns == WindowRows(account_txns, "TRANSACTIONDATE", now, D)
    IN  IF Len(window_txns) > 0
        THEN RInt(now - MaxOf(Column(window_txns, "TRANSACTIONDATE"))[1])
        ELSE RInt(9999)

\* lines 282-337: the features of one account of transaction_df.  The
\* event-type features (lines 299-308, 343-347) are left out.
TransactionFeaturesOf(account, df, now) ==
    LET account_txns == SortBy(SelectSeq(df, LAMBDA r : r.ACCOUNTSHORTNAME = account),
                               "TRANSACTIONDATE")
        W(D)   == WindowRows(account_txns, "TRANSACTIONDATE", now, D)
        amt(D) == Column(W(D), "BOOKAMOUNT")
        all    == Column(account_txns, "BOOKAMOUNT")
        Ds     == Windows(transaction_window_days)
    IN  [ACCOUNTSHORTNAME         |-> account,
         total_transactions       |-> RInt(Len(account_txns)),
         total_transaction_volume |-> RInt(Total(AbsAll(all))),
         avg_transaction_size     |-> Mean(AbsAll(all)),
         max_transaction_size     |-> MaxOf(AbsAll(all)),
         transaction_count_d      |->
             [D \in Ds |-> IF Len(W(D)) > 0 THEN RInt(Len(W(D))) ELSE RInt(0)],
         transaction_volume_d     |->
             [D \in Ds |-> IF Len(W(D)) > 0 THEN RInt(Total(AbsAll(amt(D)))) ELSE RInt(0)],
         avg_transaction_size_d   |->
             [D \in Ds |-> IF Len(W(D)) > 0 THEN Mean(AbsAll(amt(D))) ELSE RInt(0)],
         transaction_frequency_d  |->
             [D \in Ds |-> IF Len(W(D)) > 0 THEN Rat(Len(W(D)), D) ELSE RInt(0)],
         net_cash_flow_d          |->
             [D \in Ds |-> IF Len(W(D)) > 0 THEN RInt(Total(amt(D))) ELSE RInt(0)],
         days_since_last_transaction |-> DaysSinceLastTransaction(account_txns, now)]

\* lines 267-350
build_account_transaction_features(df, now) ==
    IF Len(df) = 0 THEN << >>
    ELSE LET accounts == Unique(Column(df, "ACCOUNTSHORTNAME"))
         IN  [n \in 1..Len(accounts) |-> TransactionFeaturesOf(accounts[n], df, now)]

\* line 136: the columns lifecycle_features starts from; the other
\* lifecycle features (lines 138-170) are left out.
build_account_lifecycle_features(adf) ==
    [i \in 1..Len(adf) |->
        [ACCOUNTID        |-> RInt(adf[i].ACCOUNTID),
         ACCOUNTSHORTNAME |-> adf[i].ACCOUNTSHORTNAME,
         CHURN_FLAG       |-> RInt(adf[i].CHURN_FLAG)]]

\* The columns that are families of windows.
FamilyColumns ==
    {"avg_market_value_d", "max_market_value_d", "min_market_value_d",
     "std_market_value_d", "avg_unrealized_pnl_d", "total_unrealized_pnl_d",
     "market_value_trend_d", "transaction_count_d", "transaction_volume_d",
     "avg_transaction_size_d", "transaction_frequency_d", "net_cash_flow_d"}

\* The right-hand columns of a left row without a match: all NaN.
AllNaN(r) ==
    [f \in DOMAIN r \ {"ACCOUNTSHORTNAME"} |->
        IF f \in FamilyColumns THEN [D \in DOMAIN r[f] |-> NA] ELSE NA]

\* lines 369-383: merge(features, on='ACCOUNTSHORTNAME', how='left'), done
\* only when features has rows.
MergeFeatures(left, features) ==
    IF Len(features) = 0 THEN left
    ELSE Flatten([i \in 1..Len(left) |->
            LET ms == SelectSeq(features,
                        LAMBDA r : r.ACCOUNTSHORTNAME = left[i].ACCOUNTSHORTNAME)
            IN  IF ms = << >> THEN <<left[i] @@ AllNaN(features[1])>>
                ELSE [j \in 1..Len(ms) |-> left[i] @@ ms[j]]])

FillZero(v) == IF IsNA(v) THEN RInt(0) ELSE v

\* lines 386-387: fillna(0) on the numeric columns.
FillNumeric(r) ==
    [f \in DOMAIN r |->
        IF f = "ACCOUNTSHORTNAME" THEN r[f]
        ELSE IF f \in FamilyColumns THEN [D \in DOMAIN r[f] |-> FillZero(r[f][D])]
        ELSE FillZero(r[f])]

\* lines 406-409
PortfolioVolatilityScore(r) ==
    IF {"std_market_value_d", "avg_market_value_d"} \subseteq DOMAIN r
    THEN RDiv(r.std_market_value_d[365], RAdd(r.avg_market_value_d[365], RInt(1)))
    ELSE RInt(0)

\* lines 412-415: np.where(x < 0.1, 1, 0); a NaN compares False.
LowActivityScore(r) ==
    IF "transaction_frequency_d" \in DOMAIN r
    THEN (IF ~IsNA(r.transaction_frequency_d[90])
             /\ RLess(r.transaction_frequency_d[90], <<1, 10>>)
          THEN RInt(1) ELSE RInt(0))
    ELSE RInt(0)

\* lines 418-421
DecliningValueScore(r) ==
    IF "market_value_trend_d" \in DOMAIN r
    THEN (IF ~IsNA(r.market_value_trend_d[180])
             /\ RLess(r.market_value_trend_d[180], RInt(0))
          THEN RInt(1) ELSE RInt(0))
    ELSE RInt(0)

CompositeSwappedWeights(vol, low, dec) ==
    RAdd(RAdd(RMul(vol, <<4, 10>>), RMul(low, <<3, 10>>)), RMul(dec, <<3, 10>>))

\* lines 424-428
CompositeChurnRisk(vol, low, dec) ==
    RAdd(RAdd(RMul(vol, <<3, 10>>), RMul(low, <<4, 10>>)), RMul(dec, <<3, 10>>))

\* lines 398-428: the row with its four risk columns.
RiskScored(r) ==
    LET vol == PortfolioVolatilityScore(r)
        low == LowActivityScore(r)
        dec == DecliningValueScore(r)
    IN  r @@ [portfolio_volatility_score |-> vol,
              low_activity_score         |-> low,
              declining_value_score      |-> dec,
              composite_churn_risk       |-> CompositeChurnRisk(vol, low, dec)]

\* lines 367-390: merges, fillna and risk scores.
IntegratedFeatures(adf, perf, txn) ==
    LET merged == MergeFeatures(MergeFeatures(build_account_lifecycle_features(adf),
                                              perf), txn)
    IN  [i \in 1..Len(merged) |-> RiskScored(FillNumeric(merged[i]))]

-----------------------------------------------------------------------------
(* The inputs of the feature builders and build_integrated_features, step   *)
(* by step.                                                                 *)

PerformanceRow(name, date, mv) ==
    [ACCOUNTSHORTNAME |-> name, BE_ASOF |-> date,
     BOOKMARKETVALUEPERIODEND |-> mv, BOOKUGL |-> mv - 1]

TransactionRow(name, date, amount) ==
    [ACCOUNTSHORTNAME |-> name, TRANSACTIONDATE |-> date, BOOKAMOUNT |-> amount]

\* No record, or one record of the account on the date with one of the values.
PerformanceChoices(name, date, values) ==
    {<< >>} \cup {<<PerformanceRow(name, date, v)>> : v \in values}

TransactionChoices(name, date, values) ==
    {<< >>} \cup {<<TransactionRow(name, date, v)>> : v \in values}

\* k transactions on the k days before now.
Burst(name, now, k) == [i \in 1..k |-> TransactionRow(name, now - i, 10)]

\* Position records of account A inside and outside the windows, latest
\* first, with negative market values among them, and of account B a record
\* dated after now.
PerformanceTables(now) ==
    {b \o a3 \o a2 \o a1 \o a0 :
        b  \in PerformanceChoices("B", now + 5, {4}),
        a3 \in PerformanceChoices("A", now - 10, {-2, 0}),
        a2 \in PerformanceChoices("A", now - 100, {-2, 0, 3}),
        a1 \in PerformanceChoices("A", now - 200, {0, 3}),
        a0 \in PerformanceChoices("A", now - 400, {3})}

\* Transactions of account A: one after now, a burst of none, 8 or 9 in the
\* last days, one exactly 90 days ago and one before that; and one of B,
\* inside the windows or before all of them.
TransactionTables(now) ==
    {f \o bu \o t2 \o t1 \o b :
        f  \in TransactionChoices("A", now + 1, {20}),
        bu \in {Burst("A", now, k) : k \in {0, 8, 9}},
        t2 \in TransactionChoices("A", now - 90, {20}),
        t1 \in TransactionChoices("A", now - 100, {-50}),
        b  \in TransactionChoices("B", now - 40, {-50})
                  \cup TransactionChoices("B", now - 200, {-50})}

\* Three accounts; no table has a record of account C.
FeatureAccounts ==
    <<[ACCOUNTID |-> 1, ACCOUNTSHORTNAME |-> "A", CHURN_FLAG |-> 0],
      [ACCOUNTID |-> 2, ACCOUNTSHORTNAME |-> "B", CHURN_FLAG |-> 1],
      [ACCOUNTID |-> 3, ACCOUNTSHORTNAME |-> "C", CHURN_FLAG |-> 0]>>

\* The object after load_data, at the start of build_integrated_features.
InitFeatures ==
    /\ RunIdle
    /\ today = Ts(2023, 4, 15, 0)
    /\ df_accounts = << >> /\ df_pnl = << >> /\ df_transactions = << >>
    /\ pnl_agg = << >> /\ transaction_agg = << >> /\ rows = << >>
    /\ acct_i = 1
    /\ Account_monthly_aggregated = << >> /\ df_merged = << >>
    /\ files = {} /\ stdout = << >>
    /\ pc = "not started"
    /\ current_date = 1000
    /\ account_df = FeatureAccounts
    /\ performance_df \in PerformanceTables(current_date)
    /\ transaction_df \in TransactionTables(current_date)
    /\ performance_features = << >>
    /\ transaction_features = << >>
    /\ feature_df = << >>
    /\ fe_pc = "performance"

\* line 363
BuildPerformanceFeatures ==
    /\ fe_pc = "performance"
    /\ performance_features' =
          build_account_performance_features(performance_df, current_date)
    /\ fe_pc' = "transaction"
    /\ UNCHANGED <<current_date, account_df, performance_df, transaction_df,
                   transaction_features, feature_df>>
    /\ UNCHANGED scriptVars
    /\ UNCHANGED runVars

\* line 364
BuildTransactionFeatures ==
    /\ fe_pc = "transaction"
    /\ transaction_features' =
          build_account_transaction_features(transaction_df, current_date)
    /\ fe_pc' = "integrate"
    /\ UNCHANGED <<current_date, account_df, performance_df, transaction_df,
                   performance_features, feature_df>>
    /\ UNCHANGED scriptVars
    /\ UNCHANGED runVars

\* lines 362, 367-396
IntegrateFeatures ==
    /\ fe_pc = "integrate"
    /\ feature_df' =
          IntegratedFeatures(account_df, performance_features, transaction_features)
    /\ fe_pc' = "done"
    /\ UNCHANGED <<current_date, account_df, performance_df, transaction_df,
                   performance_features, transaction_features>>
    /\ UNCHANGED scriptVars
    /\ UNCHANGED runVars

NextFeatures ==
    \/ BuildPerformanceFeatures
    \/ BuildTransactionFeatures
    \/ IntegrateFeatures

SpecFeatures == InitFeatures /\ [][NextFeatures]_vars

-----------------------------------------------------------------------------
(* The trailing windows. *)

\* The records of an account dated within [now - D days, now].
PositionsWithin(name, D) ==
    {i \in 1..Len(performance_df) :
        /\ performance_df[i].ACCOUNTSHORTNAME = name
        /\ current_date - D <= performance_df[i].BE_ASOF
        /\ performance_df[i].BE_ASOF <= current_date}

TransactionsWithin(name, D) ==
    {i \in 1..Len(transaction_df) :
        /\ transaction_df[i].ACCOUNTSHORTNAME = name
        /\ current_date - D <= transaction_df[i].TRANSACTIONDATE
        /\ transaction_df[i].TRANSACTIONDATE <= current_date}

RECURSIVE SumOver(_, _, _)
SumOver(S, df, field) ==
    IF S = {} THEN 0
    ELSE LET i == CHOOSE j \in S : TRUE
         IN  df[i][field] + SumOver(S \ {i}, df, field)

RECURSIVE AbsSumOver(_, _, _)
AbsSumOver(S, df, field) ==
    IF S = {} THEN 0
    ELSE LET i == CHOOSE j \in S : TRUE
         IN  Abs(df[i][field]) + AbsSumOver(S \ {i}, df, field)

\* C16: for every window length D the window statistics of both builders
\* are computed over exactly the account's records dated within
\* [now - D days, now]; a record dated after now is in no window.
C16_WindowsEndAtNow ==
    fe_pc = "done" =>
        /\ \A n \in 1..Len(transaction_features) :
              \A D \in Windows(transaction_window_days) :
                  LET f == transaction_features[n]
                      S == TransactionsWithin(f.ACCOUNTSHORTNAME, D)
                  IN  /\ f.transaction_count_d[D] = RInt(Cardinality(S))
                      /\ f.transaction_volume_d[D] =
                            RInt(AbsSumOver(S, transaction_df, "BOOKAMOUNT"))
                      /\ f.net_cash_flow_d[D] =
                            RInt(SumOver(S, transaction_df, "BOOKAMOUNT"))
        /\ \A n \in 1..Len(performance_features) :
              \A D \in Windows(performance_window_days) :
                  LET f == performance_features[n]
                      S == PositionsWithin(f.ACCOUNTSHORTNAME, D)
                  IN  f.total_unrealized_pnl_d[D] =
                          RInt(SumOver(S, performance_df, "BOOKUGL"))

\* C17: the trailing windows are nested, each measured from now: a record
\* counted in a shorter window is counted in every longer one, so for every
\* account the transaction counts and volumes do not decrease from the 30-
\* to the 90- to the 180-day window.
C17_WindowsNested ==
    /\ \A n \in 1..Len(transaction_features) :
          LET f == transaction_features[n]
          IN  /\ f.transaction_count_d[30][1] <= f.transaction_count_d[90][1]
              /\ f.transaction_count_d[90][1] <= f.transaction_count_d[180][1]
              /\ f.transaction_volume_d[30][1] <= f.transaction_volume_d[90][1]
              /\ f.transaction_volume_d[90][1] <= f.transaction_volume_d[180][1]
              /\ \A D \in Windows(transaction_window_days) :
                    /\ f.transaction_count_d[D][2] = 1
                    /\ f.transaction_volume_d[D][2] = 1
                    /\ f.transaction_count_d[D][1] =
                          Cardinality({i \in 1..Len(transaction_df) :
                              /\ transaction_df[i].ACCOUNTSHORTNAME = f.ACCOUNTSHORTNAME
                              /\ transaction_df[i].TRANSACTIONDATE >= current_date - D})
    /\ \A r \in 1..Len(feature_df) :
          "transaction_count_d" \in DOMAIN feature_df[r] =>
              /\ ~RLess(feature_df[r].transaction_count_d[90],
                        feature_df[r].transaction_count_d[30])
              /\ ~RLess(feature_df[r].transaction_count_d[180],
                        feature_df[r].transaction_count_d[90])
              /\ ~RLess(feature_df[r].transaction_volume_d[90],
                        feature_df[r].transaction_volume_d[30])
              /\ ~RLess(feature_df[r].transaction_volume_d[180],
                        feature_df[r].transaction_volume_d[90])

\* The features are integrated; an account has more transactions in each
\* longer window, and another account has none in the 30-day window.
C17_Witness ==
    /\ fe_pc = "done"
    /\ \E r \in 1..Len(feature_df) :
          /\ "transaction_count_d" \in DOMAIN feature_df[r]
          /\ RLess(RInt(0), feature_df[r].transaction_count_d[30])
          /\ RLess(feature_df[r].transaction_count_d[30],
                   feature_df[r].transaction_count_d[90])
          /\ RLess(feature_df[r].transaction_count_d[90],
                   feature_df[r].transaction_count_d[180])
          /\ RLess(feature_df[r].transaction_volume_d[90],
                   feature_df[r].transaction_volume_d[180])
    /\ \E n \in 1..Len(transaction_features) :
          transaction_features[n].transaction_count_d[30] = RInt(0)

-----------------------------------------------------------------------------
(* The risk scores. *)

\* The table has the columns the three indicators are computed from.
HasRiskInputs(r) ==
    {"std_market_value_d", "avg_market_value_d", "market_value_trend_d",
     "transaction_frequency_d"} \subseteq DOMAIN r

\* C18: in every row composite_churn_risk is 0.3 * portfolio_volatility_score
\* + 0.4 * low_activity_score + 0.3 * declining_value_score, the two
\* indicators are 0 or 1, low_activity_score is 1 if transaction_frequency_90d
\* < 0.1 and 0 if not, declining_value_score is 1 if market_value_trend_180d
\* < 0 and 0 if not, and rows with equal input columns get equal scores.
C18_CompositeRisk ==
    fe_pc = "done" =>
        \A i \in 1..Len(feature_df) :
            LET r    == feature_df[i]
                vol  == r.portfolio_volatility_score
                low  == r.low_activity_score
                dec  == r.declining_value_score
                risk == r.composite_churn_risk
            IN  /\ low \in {<<0, 1>>, <<1, 1>>}
                /\ dec \in {<<0, 1>>, <<1, 1>>}
                /\ IsNA(vol) <=> IsNA(risk)
                /\ ~IsNA(vol) =>
                      /\ IsInf(vol) <=> IsInf(risk)
                      /\ IsInf(vol) => (vol[1] > 0 <=> risk[1] > 0)
                      /\ ~IsInf(vol) =>
                            /\ risk[2] > 0
                            /\ 10 * risk[1] * vol[2] =
                                  risk[2] * (3 * vol[1] + (4 * low[1] + 3 * dec[1]) * vol[2])
                /\ "transaction_frequency_d" \in DOMAIN r =>
                      LET freq == r.transaction_frequency_d[90]
                      IN  /\ freq[2] > 0
                          /\ low[1] = 1 <=> freq[1] * 10 < freq[2]
                /\ "market_value_trend_d" \in DOMAIN r =>
                      LET trend == r.market_value_trend_d[180]
                      IN  /\ trend[2] > 0
                          /\ dec[1] = 1 <=> trend[1] < 0
                /\ HasRiskInputs(r) =>
                      \A j \in 1..Len(feature_df) :
                        (/\ feature_df[j].std_market_value_d[365] = r.std_market_value_d[365]
                         /\ feature_df[j].avg_market_value_d[365] = r.avg_market_value_d[365]
                         /\ feature_df[j].transaction_frequency_d[90] =
                               r.transaction_frequency_d[90]
                         /\ feature_df[j].market_value_trend_d[180] =
                               r.market_value_trend_d[180]) =>
                            feature_df[j].composite_churn_risk = risk

\* An account with a positive volatility score, a declining market value and
\* 9 transactions in the last 90 days, beside an account with low activity.
C18_Witness ==
    /\ fe_pc = "done"
    /\ \E i, j \in 1..Len(feature_df) :
          /\ HasRiskInputs(feature_df[i])
          /\ feature_df[i].declining_value_score = RInt(1)
          /\ feature_df[i].low_activity_score = RInt(0)
          /\ ~IsNA(feature_df[i].portfolio_volatility_score)
          /\ ~IsInf(feature_df[i].portfolio_volatility_score)
          /\ RLess(RInt(0), feature_df[i].portfolio_volatility_score)
          /\ RLess(<<3, 10>>, feature_df[i].composite_churn_risk)
          /\ feature_df[j].low_activity_score = RInt(1)
          /\ feature_df[j].declining_value_score = RInt(0)

\* The account of row r has no transaction (no position) record.
NoTransactionsOf(r) ==
    \A i \in 1..Len(transaction_df) :
        transaction_df[i].ACCOUNTSHORTNAME # r.ACCOUNTSHORTNAME

NoPositionsOf(r) ==
    \A i \in 1..Len(performance_df) :
        performance_df[i].ACCOUNTSHORTNAME # r.ACCOUNTSHORTNAME

\* C19: an account without transaction records has low_activity_score 0, an
\* account without position records has volatility and declining-value
\* score 0, so a missing aggregate adds nothing to composite_churn_risk.
C19_MissingAggregateNonRisky ==
    fe_pc = "done" =>
        \A i \in 1..Len(feature_df) :
            LET r == feature_df[i]
            IN  /\ NoTransactionsOf(r) => r.low_activity_score = RInt(0)
                /\ NoPositionsOf(r) =>
                      /\ REq(r.portfolio_volatility_score, RInt(0))
                      /\ r.declining_value_score = RInt(0)
                /\ (NoTransactionsOf(r) /\ NoPositionsOf(r)) =>
                      REq(r.composite_churn_risk, RInt(0))

\* C20: avg_market_value_365d + 1 is never zero, so
\* portfolio_volatility_score is always a finite number.
C20_VolatilityDenominatorNonZero ==
    fe_pc = "done" =>
        \A i \in 1..Len(feature_df) :
            LET r == feature_df[i]
            IN  "avg_market_value_d" \in DOMAIN r =>
                  /\ RAdd(r.avg_market_value_d[365], RInt(1))[1] # 0
                  /\ ~IsNA(r.portfolio_volatility_score)
                  /\ ~IsInf(r.portfolio_volatility_score)

-----------------------------------------------------------------------------
(* Missing values in the feature table. *)

\* The position records of the account of row r dated in the window of D days.
PositionsInWindow(r, D) ==
    WindowRows(SelectSeq(performance_df,
                         LAMBDA p : p.ACCOUNTSHORTNAME = r.ACCOUNTSHORTNAME),
               "BE_ASOF", current_date, D)

\* C21: the feature table keeps a missing value missing: the standard
\* deviation of a window with a single record and every aggregate of an
\* account without records are NaN in feature_df, not 0.
C21_MissingPreserved ==
    fe_pc = "done" =>
        \A i \in 1..Len(feature_df) :
            LET r == feature_df[i]
            IN  /\ "std_market_value_d" \in DOMAIN r =>
                      /\ \A D \in DOMAIN r.std_market_value_d :
                            Len(PositionsInWindow(r, D)) = 1 =>
                                IsNA(r.std_market_value_d[D])
                      /\ NoPositionsOf(r) => IsNA(r.avg_market_value_d[365])
                /\ "transaction_count_d" \in DOMAIN r =>
                      (NoTransactionsOf(r) => IsNA(r.total_transactions))

-----------------------------------------------------------------------------
(* account_level_data_extractor.py: AccountLevelDataExtractor.               *)
(* Timestamps are whole numbers of days.                                      *)

\* The monthly script and the feature builder when they are not run.
ScriptIdle ==
    /\ today = Ts(2023, 4, 15, 0)
    /\ df_accounts = << >> /\ df_pnl = << >> /\ df_transactions = << >>
    /\ pnl_agg = << >> /\ transaction_agg = << >> /\ rows = << >>
    /\ acct_i = 1
    /\ Account_monthly_aggregated = << >> /\ df_merged = << >>
    /\ files = {} /\ stdout = << >>
    /\ pc = "not started"

FeaturesIdle ==
    /\ current_date = 0
    /\ account_df = << >> /\ performance_df = << >> /\ transaction_df = << >>
    /\ performance_features = << >> /\ transaction_features = << >>
    /\ feature_df = << >>
    /\ fe_pc = "not started"

\* line 62
churn_definition_days == 90

AccountChurnFlagStrict(close, now) ==
    IF ~IsNA(close) /\ close[1] < now - churn_definition_days THEN 1 ELSE 0

\* lines 153-160: np.where(notna & (ACCOUNTCLOSEDATE <= churn_cutoff), 1, 0)
\* with churn_cutoff = current_date - timedelta(days=churn_definition_days).
AccountChurnFlag(close, now) ==
    IF ~IsNA(close) /\ close[1] <= now - churn_definition_days THEN 1 ELSE 0

FlagAccounts(df, now) ==
    [i \in 1..Len(df) |-> df[i] @@ [CHURN_FLAG |-> AccountChurnFlag(df[i].ACCOUNTCLOSEDATE, now)]]

\* The rows the account query returns: close dates missing, long ago, around
\* the cutoff of either value of now, and after now.
MaxQueryRows == 2

CloseDates == {NA, <<600>>, <<909>>, <<910>>, <<911>>, <<912>>, <<1002>>}

QueryRows ==
    UNION {[1..n -> [ACCOUNTID : {7}, ACCOUNTCLOSEDATE : CloseDates]] :
              n \in 0..MaxQueryRows}

InitExtract ==
    /\ ScriptIdle
    /\ FeaturesIdle
    /\ env \in [now : {1000, 1001}, rows : QueryRows,
                 query_ok : BOOLEAN, save_ok : BOOLEAN]
    /\ connection = "open"
    /\ started = << >>
    /\ artifacts = {}
    /\ result = << >>
    /\ account_master = << >>
    /\ run_pc = "extract_account"

\* lines 96-178: extract_account_data(save_to_csv=True).  An exception of
\* pd.read_sql or of to_csv is caught at line 176 and None is returned.
ExtractAccountData ==
    /\ run_pc = "extract_account"
    /\ run_pc' = "done"
    /\ started' = Append(started, "extract_account_data")
    /\ IF env.query_ok /\ env.save_ok
       THEN /\ account_master' = FlagAccounts(env.rows, env.now)
            /\ artifacts' = artifacts \cup {"account_master.csv"}
            /\ result' = "df"
       ELSE /\ account_master' = account_master
            /\ artifacts' = artifacts
            /\ result' = "None"
    /\ UNCHANGED <<env, connection>>
    /\ UNCHANGED scriptVars
    /\ UNCHANGED feVars

NextExtract == ExtractAccountData

SpecExtract == InitExtract /\ [][NextExtract]_vars

\* C22 as stated: CHURN_FLAG is 1 exactly when the close date exists and is
\* earlier than now minus 90 days.
C22_ChurnedIffClosedBeforeCutoff ==
    result = "df" =>
        \A i \in 1..Len(account_master) :
            LET close == account_master[i].ACCOUNTCLOSEDATE
            IN  account_master[i].CHURN_FLAG = 1 <=>
                    (~IsNA(close) /\ close[1] < env.now - 90)

\* C22: CHURN_FLAG is 1 exactly when the close date exists and is at or
\* before now minus 90 days, and 0 otherwise; an account without a close
\* date or closed less than 90 days ago has CHURN_FLAG 0.
C22_ChurnedIffClosedAtOrBeforeCutoff ==
    result = "df" =>
        /\ Len(account_master) = Len(env.rows)
        /\ \A i \in 1..Len(account_master) :
              LET close == account_master[i].ACCOUNTCLOSEDATE
              IN  /\ close = env.rows[i].ACCOUNTCLOSEDATE
                  /\ account_master[i].CHURN_FLAG \in {0, 1}
                  /\ account_master[i].CHURN_FLAG = 1 <=>
                        (~IsNA(close) /\ close[1] <= env.now - 90)
                  /\ (IsNA(close) \/ close[1] > env.now - 90) =>
                        account_master[i].CHURN_FLAG = 0

\* An account closed exactly 90 days ago is flagged, beside one without a
\* close date.
C22_Witness ==
    /\ result = "df"
    /\ \E i, j \in 1..Len(account_master) :
          /\ account_master[i].ACCOUNTCLOSEDATE = <<env.now - 90>>
          /\ account_master[i].CHURN_FLAG = 1
          /\ IsNA(account_master[j].ACCOUNTCLOSEDATE)
          /\ account_master[j].CHURN_FLAG = 0

-----------------------------------------------------------------------------
(* Empty input tables and the recency of the last transaction. *)

\* C23: an empty performance or transaction table is fatal for
\* build_integrated_features: the run produces no feature table.
C23_EmptyInputFatal ==
    (performance_df = << >> \/ transaction_df = << >>) =>
        (fe_pc # "done" /\ feature_df = << >>)

\* The transaction records of an account.
AccountTransactions(account) ==
    SelectSeq(transaction_df, LAMBDA t : t.ACCOUNTSHORTNAME = account)

\* C29: days_since_last_transaction of an account with transaction records
\* is the number of days from its most recent transaction to now, whatever
\* the windows; it is 9999 only for an account without records.
C29_DaysSinceLastTransaction ==
    fe_pc \in {"integrate", "done"} =>
        \A n \in 1..Len(transaction_features) :
            LET r     == transaction_features[n]
                dates == Column(AccountTransactions(r.ACCOUNTSHORTNAME), "TRANSACTIONDATE")
            IN  /\ dates # << >> =>
                      r.days_since_last_transaction =
                          RInt(current_date - MaxOf(dates)[1])
                /\ r.days_since_last_transaction = RInt(9999) => dates = << >>

-----------------------------------------------------------------------------
(* The quantity changes of a month and the files of a run. *)

\* The quantities of the snapshots an aggregate row is made of, in the order
\* of their dates.
QuantitiesInDateOrder(a) ==
    Column(SortPnl(SelectSeq(df_pnl, LAMBDA s : s.idx \in a.SRC)),
           "TOTAL_DAILY_QUANTITY")

\* C30: QUANTITY_CHANGE_COUNT of an account-month is the number of times the
\* quantity differs between two consecutive snapshots of the month; it is 0
\* for a month with one snapshot or with the same quantity throughout.
C30_QuantityChangeCount ==
    pc \notin {"aggregate_pnl", "failed"} =>
        \A n \in 1..Len(pnl_agg) :
            LET q == QuantitiesInDateOrder(pnl_agg[n])
            IN  pnl_agg[n].QUANTITY_CHANGE_COUNT =
                    Num(Cardinality({i \in 2..Len(q) : q[i] # q[i - 1]}))

\* C24: a run that fails has written no output file; output files exist
\* only after a run that completes.
C24_FailedRunWritesNothing == pc = "failed" => files = {}

-----------------------------------------------------------------------------
(* run_account_churn_pipeline.py, main of account_level_data_extractor.py,    *)
(* load_data of account_level_feature_engineering.py and                      *)
(* run_feature_engineering.py.  env says what the database, the file system   *)
(* and the other modules do: whether the Oracle client initialises            *)
(* (init_ok), the connection opens (connect_ok), which tables are extracted   *)
(* (tables), whether writing the data quality report raises                   *)
(* (report_raises), whether the EDA and the model development succeed, and    *)
(* whether the sample files and the Oracle environment are there.             *)

AllTables == {"account", "performance", "transaction"}

\* account_level_data_extractor.py lines 168, 243, 313
RawFile(table) ==
    IF table = "account" THEN "account_master.csv"
    ELSE IF table = "performance" THEN "account_performance.csv"
    ELSE "account_transactions.csv"

\* lines 325-348: every extraction catches its own exception and returns
\* None, after the file of every earlier table is saved.
ExtractedFiles(e) == {RawFile(t) : t \in e.tables}

\* The result of an operation: what it returns, the connection of the
\* extractor it made, the files it wrote.
Outcome(ok, conn, fs) == [ok |-> ok, connection |-> conn, files |-> fs]

\* A call with a keyword argument the function does not declare raises
\* TypeError.
KeywordsRejected(keywords, parameters) == ~(keywords \subseteq parameters)

\* account_level_feature_engineering.py line 43: def load_data(self)
load_data_parameters == {}

\* tier1_feature_engineering.py line 477: def main()
tier1_main_parameters == {}

\* account_level_feature_engineering.py lines 11-16: the names the module
\* imports.
feature_engineering_imports ==
    {"pd", "np", "datetime", "timedelta", "warnings", "logging", "LabelEncoder"}

\* run_account_churn_pipeline.py lines 88-133.  An exception out of
\* extract_all_account_data (generate_data_quality_report is not guarded,
\* line 346) is caught at line 131, past the disconnect of line 118.
run_data_extraction(e) ==
    IF ~e.use_oracle THEN Outcome(TRUE, "none", {})
    ELSE IF ~e.init_ok \/ ~e.connect_ok THEN Outcome(FALSE, "none", {})
    ELSE IF e.report_raises THEN Outcome(FALSE, "open", ExtractedFiles(e))
    ELSE Outcome(e.tables = AllTables, "closed",
                 ExtractedFiles(e) \cup {"account_data_quality_report.txt"})

\* account_level_data_extractor.py lines 416-456: main, with the disconnect
\* in a finally clause.
extractor_main(e) ==
    IF ~e.init_ok \/ ~e.connect_ok THEN Outcome(FALSE, "none", {})
    ELSE IF e.report_raises THEN Outcome(FALSE, "closed", ExtractedFiles(e))
    ELSE Outcome(e.tables # {}, "closed",
                 ExtractedFiles(e) \cup {"account_data_quality_report.txt"})

\* account_level_feature_engineering.py lines 43-91: load_data(), with the
\* disconnect in a finally clause around the extraction.
load_data(e) ==
    IF ~e.init_ok \/ ~e.connect_ok THEN Outcome(FALSE, "none", {})
    ELSE IF e.report_raises THEN Outcome(FALSE, "closed", ExtractedFiles(e))
    ELSE Outcome(e.tables = AllTables, "closed",
                 ExtractedFiles(e) \cup {"account_data_quality_report.txt"})

\* run_account_churn_pipeline.py lines 135-160; the EDA falls back to sample
\* data of its own, so its result is that of run_complete_eda.
run_exploratory_data_analysis(e) == Outcome(e.eda_ok, "none", {})

\* lines 162-197: load_data(use_oracle=use_oracle) at line 175 is a call
\* with a keyword; generate_feature_report and save_features use os (lines
\* 493, 510); every exception is caught at line 195.
run_feature_engineering(e) ==
    IF KeywordsRejected({"use_oracle"}, load_data_parameters)
    THEN Outcome(FALSE, "none", {})
    ELSE LET l == load_data(e)
         IN  IF ~l.ok THEN Outcome(FALSE, l.connection, l.files)
             ELSE IF "os" \notin feature_engineering_imports
             THEN Outcome(FALSE, l.connection, l.files)
             ELSE Outcome(TRUE, l.connection,
                          l.files \cup {"account_feature_report.txt",
                                        "account_churn_features.csv"})

\* lines 199-230
run_model_development(e) ==
    Outcome(e.model_ok, "none", IF e.model_ok THEN {"best_model.pkl"} ELSE {})

\* run_feature_engineering.py lines 68-98: main(use_oracle=False) at line 94.
run_with_samples(e) ==
    IF ~e.samples_present THEN FALSE
    ELSE ~KeywordsRejected({"use_oracle"}, tier1_main_parameters)

\* run_feature_engineering.py lines 50-66: main(use_oracle=True) at line 61.
run_with_oracle(e) ==
    IF ~e.oracle_env_ok THEN FALSE
    ELSE ~KeywordsRejected({"use_oracle"}, tier1_main_parameters)

\* The steps of run_complete_pipeline (lines 241-270) and the positions
\* before each of them, in the complete pipeline and as a single option.
StepName == <<"data extraction", "eda", "feature engineering", "model development">>

PipelinePc == <<"pipeline 1", "pipeline 2", "pipeline 3", "pipeline 4">>

OnlyPc == <<"only 1", "only 2", "only 3", "only 4">>

AfterStepIgnoringFailure(k, ok) ==
    IF k = 4 THEN "exited" ELSE PipelinePc[k + 1]

\* lines 241-270 and 311-317: a failed step makes run_complete_pipeline
\* return False, and main shows the menu again; after the fourth step it
\* returns True and main leaves its loop.
AfterStep(k, ok) ==
    IF ~ok THEN "menu" ELSE IF k = 4 THEN "exited" ELSE PipelinePc[k + 1]

MaxStarted == 5

Failing == {AllTables, {"account"}, {}}

PipelineEnvs ==
    [program : {"pipeline"}, use_oracle : BOOLEAN, init_ok : BOOLEAN,
     connect_ok : BOOLEAN, tables : Failing, report_raises : BOOLEAN,
     eda_ok : BOOLEAN, model_ok : BOOLEAN,
     samples_present : {TRUE}, oracle_env_ok : {TRUE}]

EntryPointEnvs ==
    [program : {"extractor", "feature engineering"}, use_oracle : {TRUE},
     init_ok : BOOLEAN, connect_ok : BOOLEAN, tables : Failing,
     report_raises : BOOLEAN, eda_ok : {TRUE}, model_ok : {TRUE},
     samples_present : {TRUE}, oracle_env_ok : {TRUE}]

RunnerEnvs ==
    [program : {"runner"}, use_oracle : {FALSE}, init_ok : {TRUE},
     connect_ok : {TRUE}, tables : {AllTables}, report_raises : {FALSE},
     eda_ok : {TRUE}, model_ok : {TRUE},
     samples_present : BOOLEAN, oracle_env_ok : BOOLEAN]

InitRun ==
    /\ ScriptIdle
    /\ FeaturesIdle
    /\ env \in PipelineEnvs \cup EntryPointEnvs \cup RunnerEnvs
    /\ connection = "none"
    /\ started = << >>
    /\ artifacts = {}
    /\ result = << >>
    /\ account_master = << >>
    /\ run_pc = (IF env.program = "pipeline" THEN "menu"
                 ELSE IF env.program = "extractor" THEN "extractor main"
                 ELSE IF env.program = "feature engineering" THEN "load_data"
                 ELSE "runner menu")

Started(choice, step, ok) == [choice |-> choice, step |-> step, ok |-> ok]

ResultOf(ok) == IF ok THEN "True" ELSE "False"

\* run_account_churn_pipeline.py lines 303-358: main reads an option and
\* starts it; option 6 is sys.exit(0).
SelectOption ==
    /\ run_pc = "menu"
    /\ Len(started) < MaxStarted
    /\ \E choice \in {"1", "2", "3", "4", "5", "6"} :
          /\ started' = Append(started, Started(choice, "selected", TRUE))
          /\ run_pc' = (IF choice = "1" THEN PipelinePc[1]
                        ELSE IF choice = "2" THEN OnlyPc[1]
                        ELSE IF choice = "3" THEN OnlyPc[2]
                        ELSE IF choice = "4" THEN OnlyPc[3]
                        ELSE IF choice = "5" THEN OnlyPc[4]
                        ELSE "exited")
    /\ result' = << >>
    /\ UNCHANGED <<env, connection, artifacts, account_master>>
    /\ UNCHANGED scriptVars
    /\ UNCHANGED feVars

\* Step k, run to its return with outcome o: inside run_complete_pipeline
\* (lines 241-270) or as the single option of the menu, after which main
\* asks whether to run another component (lines 365-368).
RunStep(k, o) ==
    /\ run_pc \in {PipelinePc[k], OnlyPc[k]}
    /\ started' = Append(started,
                         Started((IF run_pc = PipelinePc[k] THEN "1" ELSE "single"),
                                 StepName[k], o.ok))
    /\ connection' = o.connection
    /\ artifacts' = artifacts \cup o.files
    /\ IF run_pc = PipelinePc[k]
       THEN /\ run_pc' = AfterStep(k, o.ok)
            /\ result' = (IF ~o.ok THEN "False"
                          ELSE IF k = 4 THEN "True" ELSE result)
       ELSE /\ \E again \in BOOLEAN : run_pc' = (IF again THEN "menu" ELSE "exited")
            /\ result' = ResultOf(o.ok)
    /\ UNCHANGED <<env, account_master>>
    /\ UNCHANGED scriptVars
    /\ UNCHANGED feVars

RunDataExtraction == RunStep(1, run_data_extraction(env))

RunExploratoryDataAnalysis == RunStep(2, run_exploratory_data_analysis(env))

RunFeatureEngineering == RunStep(3, run_feature_engineering(env))

RunModelDevelopment == RunStep(4, run_model_development(env))

\* An entry point run to its return with outcome o.
RunEntryPoint(at, o) ==
    /\ run_pc = at
    /\ started' = Append(started, Started("main", at, o.ok))
    /\ connection' = o.connection
    /\ artifacts' = artifacts \cup o.files
    /\ result' = ResultOf(o.ok)
    /\ run_pc' = "exited"
    /\ UNCHANGED <<env, account_master>>
    /\ UNCHANGED scriptVars
    /\ UNCHANGED feVars

\* account_level_data_extractor.py lines 416-456
ExtractorMain == RunEntryPoint("extractor main", extractor_main(env))

\* account_level_feature_engineering.py line 528: feature_eng.load_data()
LoadData == RunEntryPoint("load_data", load_data(env))

\* run_feature_engineering.py lines 100-145: one turn of the menu loop.
RunnerSelect ==
    /\ run_pc = "runner menu"
    /\ Len(started) < MaxStarted
    /\ \E choice \in {"1", "2", "3"} :
          LET success == IF choice = "1" THEN run_with_oracle(env)
                         ELSE IF choice = "2" THEN run_with_samples(env)
                         ELSE FALSE
              step    == IF choice = "1" THEN "run_with_oracle"
                         ELSE IF choice = "2" THEN "run_with_samples"
                         ELSE "exit"
          IN  /\ started' = Append(started, Started(choice, step, success))
              /\ result' = ResultOf(success)
              /\ run_pc' = (IF choice = "3" \/ success THEN "exited"
                            ELSE "runner menu")
    /\ UNCHANGED <<env, connection, artifacts, account_master>>
    /\ UNCHANGED scriptVars
    /\ UNCHANGED feVars

NextRun ==
    \/ SelectOption
    \/ RunDataExtraction
    \/ RunExploratoryDataAnalysis
    \/ RunFeatureEngineering
    \/ RunModelDevelopment
    \/ ExtractorMain
    \/ LoadData
    \/ RunnerSelect

SpecRun == InitRun /\ [][NextRun]_vars

-----------------------------------------------------------------------------
(* The order of the pipeline, its success, the menu loop and the connections. *)

\* The position in started of the last option selected at the menu.
LastSelection ==
    CHOOSE i \in 1..Len(started) :
        /\ started[i].step = "selected"
        /\ \A j \in (i + 1)..Len(started) : started[j].step # "selected"

\* The steps started since the last selection.
CurrentRun == SubSeq(started, LastSelection + 1, Len(started))

InCompletePipeline ==
    /\ env.program = "pipeline"
    /\ started # << >>
    /\ started[LastSelection].choice = "1"

\* C25: run_complete_pipeline starts its steps in the order data extraction,
\* EDA, feature engineering, model development; a step is started only if
\* every earlier step succeeded; the first failing step makes it return
\* False with no later step started; it returns True only if all four steps
\* succeeded.
C25_StepsInOrderUntilFailure ==
    InCompletePipeline =>
        LET run == CurrentRun
        IN  /\ Len(run) <= 4
            /\ \A i \in 1..Len(run) : run[i].step = StepName[i]
            /\ \A i \in 1..(Len(run) - 1) : run[i].ok
            /\ (\E i \in 1..Len(run) : ~run[i].ok) =>
                  (result = "False" /\ run_pc = "menu")
            /\ result = "False" => ~run[Len(run)].ok
            /\ result = "True" =>
                  (Len(run) = 4 /\ \A i \in 1..4 : run[i].ok)
            /\ \A k \in 1..4 : run_pc = PipelinePc[k] => Len(run) = k - 1

\* The pipeline stopped at its third step: two steps succeeded, feature
\* engineering failed, model development was not started.
C25_Witness ==
    /\ InCompletePipeline
    /\ Len(CurrentRun) = 3
    /\ CurrentRun[1].ok /\ CurrentRun[2].ok /\ ~CurrentRun[3].ok
    /\ result = "False"
    /\ run_pc = "menu"

\* Nothing outside the program fails.
NoExternalFailure ==
    /\ env.init_ok /\ env.connect_ok
    /\ env.tables = AllTables
    /\ ~env.report_raises
    /\ env.eda_ok /\ env.model_ok

\* C26: when nothing outside the program fails, run_feature_engineering
\* returns True and the complete pipeline returns True.
C26_PipelineCanSucceed ==
    (env.program = "pipeline" /\ NoExternalFailure) =>
        /\ \A i \in 1..Len(started) :
              started[i].step = "feature engineering" => started[i].ok
        /\ (InCompletePipeline /\ CurrentRun # << >>
              /\ run_pc \in {"menu", "exited"}) => result = "True"

\* C27: option 2 of the feature-engineering runner with the sample files
\* present makes run_with_samples return True, and the menu loop ends.
C27_SampleRunEndsLoop ==
    (env.program = "runner" /\ env.samples_present) =>
        \A i \in 1..Len(started) :
            started[i].step = "run_with_samples" =>
                (started[i].ok /\ i = Len(started) /\ run_pc = "exited")

\* C28: a connection that was opened is closed when the operation that
\* opened it has returned: in load_data, in the extractor's main and in
\* run_data_extraction.
C28_ConnectionsClosed ==
    env.program \in {"pipeline", "extractor", "feature engineering"} =>
        connection # "open"

====
